---- MODULE Spec2Model ----
(***************************************************************************)
(* DirtJWax: the judgment engine, note scheduler and score aggregator of   *)
(* src/dwax_game.py (GameNote, GameTrack, GameSequencePlayer,              *)
(* GamePatternPlayer, and the key gating of GameInputHandler).             *)
(*                                                                         *)
(* Milliseconds are integers: the charts below use a ticks-per-measure and *)
(* tempos for which 240000 / ticksPerMeasure / tempo is a whole number, so *)
(* that every float of the source is an exact integer here.                *)
(***************************************************************************)
EXTENDS Integers, Sequences, FiniteSets, TLC

VARIABLES
    ptfiles,                       \* the chart files that can be opened: name -> PTFile
    ptfile,                        \* name of the loaded chart, "None" before open_ptfile
    game_tracks_dict,              \* track index -> GameTrack (notes, both cursors, key held)
    game_playable_tracks_list,     \* sequence of the interactive track indices
    tempos_per_tick,               \* timeline, one entry per tick
    played_millis_per_tick,
    tick_interval_millis_per_tick,
    track_has_any_overlap,         \* track index -> flagged by the load's sweep
    number_of_channels_per_track,  \* track index -> 0, 1 or 2
    channel_per_track,             \* track index -> GameTrackChannel (channels, volume, picker index)
    tempo, beat, tick_interval_millis,
    current_tick,
    current_millis, started_millis, elapsed_millis, played_millis, paused_millis,
    is_playable, is_playing,
    is_auto_play, game_mode,
    ignore_play_keys, input_game_mode,   \* GameInputHandler
    score,                         \* GamePatternPlayer: count, combo, average, per-grade counts
    now,                           \* pygame.time.get_ticks()
    frame,                         \* position in the frame: "idle" or "started"
    raised,                        \* exception that ended the program, "None" if none
    last,                          \* what the last operation did (observation only)
    control_ops,                   \* number of playback-control operations so far
    report_count,                  \* PlayResults reported per note in this run (observation only)
    decryptor,                     \* PTFile.CACHED_PTFILE_DECRYPTOR: token, client token, command table
    token_file,                    \* unpack-cache/token.json: "None" or the token it holds
    decrypted_cache,               \* unpack-cache/*.pt: file name -> decrypted bytes
    parse,                         \* the running or last call of PTFile.parse
    debug,                         \* __debug__ of the interpreter: FALSE under python -O
    loop                           \* asyncio event loop of Game.main_async: main, ready queue, tasks, executor

vars == <<ptfiles, ptfile, game_tracks_dict, game_playable_tracks_list, tempos_per_tick,
          played_millis_per_tick, tick_interval_millis_per_tick,
          track_has_any_overlap, number_of_channels_per_track, channel_per_track,
          tempo, beat,
          tick_interval_millis, current_tick, current_millis, started_millis,
          elapsed_millis, played_millis, paused_millis, is_playable, is_playing,
          is_auto_play, game_mode, ignore_play_keys, input_game_mode, score, now,
          frame, raised, last, control_ops, report_count, decryptor, token_file,
          decrypted_cache, parse, debug, loop>>

Decoder == <<decryptor, token_file, decrypted_cache, parse, debug>>

(***************************************************************************)
(* Bounds of the model                                                     *)
(***************************************************************************)
\* the wall clock when the first frame is sampled
ClockStart == 1000
\* no frame is sampled more than this long after ClockStart
MaxClock == 640
\* longest single jump of the clock in the dense judgment runs
MaxJump == 330
\* playback-control operations (load, start, stop, mode change) in one behaviour
MaxControlOps == 3

(***************************************************************************)
(* Program constants                                                       *)
(***************************************************************************)
unit_judge_millis == 42
LongDurationThreshold == 6
DefaultBeat == 4
MillisPerMeasureAtOneBpm == 240000

Min(a, b) == IF a < b THEN a ELSE b
Max(a, b) == IF a > b THEN a ELSE b
Abs(x) == IF x < 0 THEN -x ELSE x

\* int(a / b) of Python for b > 0: truncation toward zero
TruncDiv(a, b) == IF a >= 0 THEN a \div b ELSE -((-a) \div b)

(***************************************************************************)
(* Charts (PTFile)                                                         *)
(***************************************************************************)
GENERAL == "GENERAL"
VOLUME  == "VOLUME"
BPM     == "BPM"
BEAT    == "BEAT"

\* sound_duration_millis: the length of the note's sound, 0 where the charts
\* below do not say
Note(pos, ct, dur, tmp) ==
    [position |-> pos, command_type |-> ct, duration |-> dur, tempo |-> tmp,
     volume |-> 0, beat |-> 0, sound_duration_millis |-> 0]

General(pos, dur) == Note(pos, GENERAL, dur, 0)
Volume(pos)       == Note(pos, VOLUME, 0, 0)
Bpm(pos, tmp)     == Note(pos, BPM, 0, tmp)
Beat(pos, b)      == [Note(pos, BEAT, 0, 0) EXCEPT !.beat = b]
VolumeTo(pos, v)  == [Note(pos, VOLUME, 0, 0) EXCEPT !.volume = v]

TrackIndices == {0, 3, 7}

\* "judge": 20 ms per tick; button 1 has a short note at 140 ms and a long
\* note from 180 ms to 320 ms.
ChartJudge ==
    [ticks_per_measure |-> 100, master_bpm |-> 120, total_ticks |-> 24,
     tracks |-> [t \in TrackIndices |->
        CASE t = 0 -> <<Bpm(0, 120)>>
          [] t = 3 -> <<General(7, 2), General(9, 7)>>
          [] OTHER -> <<>>]]

\* "lead": 20 ms per tick, three beats to the measure from tick 2 on;
\* button 1 opens with a VOLUME note (volume 0), then a long
\* note from 20 ms to 160 ms; button 5 (interactive from mode FIVE up) has a
\* short note at 40 ms.
ChartLead ==
    [ticks_per_measure |-> 100, master_bpm |-> 120, total_ticks |-> 12,
     tracks |-> [t \in TrackIndices |->
        CASE t = 0 -> <<Bpm(0, 120), Beat(2, 3)>>
          [] t = 3 -> <<Volume(0), General(1, 7)>>
          [] t = 7 -> <<General(2, 2)>>]]

\* "slow": 200 ms per tick (12 beats per minute); button 1 has a short note
\* at tick 1 (200 ms).
ChartSlow ==
    [ticks_per_measure |-> 100, master_bpm |-> 12, total_ticks |-> 3,
     tracks |-> [t \in TrackIndices |->
        CASE t = 0 -> <<Bpm(0, 12)>>
          [] t = 3 -> <<General(1, 2)>>
          [] OTHER -> <<>>]]

ChartNames == {"judge", "lead", "slow"}

\* the generated charts: GenTicks ticks of 100 to the measure; track 0 holds no
\* BPM note, one, or two of different tempo (20 or 40 ms per tick) at the same
\* or at different ticks; button 1
\* (track 3) and the track 12 hold the same three short GENERAL notes, the
\* first two with a sound of 20 or 50 ms
GenTicks == 4
GenTempos == {60, 120}
GenSounds == {20, 50}

Sounding(n, millis) == [n EXCEPT !.sound_duration_millis = millis]

GenBpmTracks ==
    {<<>>}
    \cup {<<Bpm(p, a)>> : p \in 0..(GenTicks - 1), a \in GenTempos}
    \cup {<<Bpm(pq[1], ab[1]), Bpm(pq[2], ab[2])>> :
             pq \in {x \in (0..(GenTicks - 1)) \X (0..(GenTicks - 1)) : x[1] <= x[2]},
             ab \in {y \in GenTempos \X GenTempos : y[1] # y[2]}}

GenGeneralTracks ==
    {<<Sounding(General(pqr[1], 2), ss[1]), Sounding(General(pqr[2], 2), ss[2]),
       General(pqr[3], 2)>> :
        pqr \in {x \in (0..(GenTicks - 1)) \X (0..(GenTicks - 1)) \X (0..(GenTicks - 1)) :
                    x[1] <= x[2] /\ x[2] <= x[3]},
        ss \in GenSounds \X GenSounds}

GenCharts ==
    {[ticks_per_measure |-> 100, master_bpm |-> 120, total_ticks |-> GenTicks,
      tracks |-> [t \in {0, 3, 12} |-> IF t = 0 THEN b ELSE g]] :
        b \in GenBpmTracks, g \in GenGeneralTracks}

NamedCharts ==
    [name \in ChartNames |->
        CASE name = "judge" -> ChartJudge
          [] name = "lead"  -> ChartLead
          [] name = "slow"  -> ChartSlow]

\* PTFile.parse(filename)
Chart(name) == ptfiles[name]

(***************************************************************************)
(* GameTrackButtonType / GameMode                                          *)
(***************************************************************************)
GameModes == {4, 5, 6, 8}

\* GameMode.get_track_indices: the track indices of the mode's buttons
get_track_indices(mode) ==
    CASE mode = 4 -> {2, 3, 4, 5, 6, 9}
      [] mode = 5 -> {2, 3, 4, 5, 6, 7, 9}
      [] mode = 6 -> {2, 3, 4, 5, 6, 7, 8, 9}
      [] mode = 8 -> {10, 2, 3, 4, 5, 6, 7, 8, 9, 11}

is_playable_track(mode, track_index) == track_index \in get_track_indices(mode)

\* the ascending sequence of a finite set of track indices (dict order of
\* enumerate(ptfile.tracks))
RECURSIVE SortedSeq(_)
SortedSeq(S) ==
    IF S = {} THEN <<>>
    ELSE LET m == CHOOSE x \in S : \A y \in S : x <= y
         IN <<m>> \o SortedSeq(S \ {m})

SeqToSet(s) == {s[i] : i \in 1..Len(s)}

(***************************************************************************)
(* GameNotePlayResult                                                      *)
(***************************************************************************)
Grades == {"MAX100", "MAX90", "MAX1", "BREAK"}

\* GameNotePlayResultType as an integer
GradeValue(g) ==
    CASE g = "MAX100" -> 100
      [] g = "MAX90"  -> 90
      [] g = "MAX1"   -> 1
      [] g = "BREAK"  -> 0

\* Python's None for a PlayResult
NoResult ==
    [some |-> FALSE, result_type |-> "None", timing_diff |-> 0, reason |-> "None"]

GameNotePlayResult(rt, td, rs) ==
    [some |-> TRUE, result_type |-> rt, timing_diff |-> td, reason |-> rs]

(***************************************************************************)
(* GameNote                                                                *)
(***************************************************************************)
GameNote(n) ==
    [position |-> n.position, command_type |-> n.command_type,
     duration |-> n.duration, tempo |-> n.tempo,
     volume |-> n.volume, beat |-> n.beat,
     is_playing |-> FALSE, is_played |-> FALSE,
     result_type |-> "None", play_result |-> NoResult]

is_general(note) == note.command_type = GENERAL
is_long(note)    == is_general(note) /\ note.duration > LongDurationThreshold
is_short(note)   == ~is_long(note)
get_end_position(note) == note.position + note.duration

\* played_millis_per_tick[i] raises IndexError unless 0 <= i < len
HasTick(i) == i >= 0 /\ i < Len(played_millis_per_tick)
get_position_millis(note)     == played_millis_per_tick[note.position + 1]
get_end_position_millis(note) == played_millis_per_tick[get_end_position(note) + 1]

note_is_playable(note) == is_general(note) /\ ~(note.is_played \/ note.is_playing)

note_reset_play_status(note) ==
    [note EXCEPT !.is_playing = FALSE, !.is_played = FALSE,
                 !.result_type = "None", !.play_result = NoResult]

\* a variant of the grade branches whose first window includes its upper edge
JudgeGrade_Inclusive(abs_diff_millis, old) ==
    IF abs_diff_millis <= unit_judge_millis THEN "MAX100"
    ELSE IF abs_diff_millis < 2 * unit_judge_millis THEN "MAX90"
    ELSE IF abs_diff_millis < 3 * unit_judge_millis THEN "MAX1"
    ELSE old

\* the grade branches of GameNote.start_play; the recorded grade is left as
\* it was when no branch is taken
JudgeGrade(abs_diff_millis, old) ==
    IF abs_diff_millis < unit_judge_millis THEN "MAX100"
    ELSE IF abs_diff_millis < 2 * unit_judge_millis THEN "MAX90"
    ELSE IF abs_diff_millis < 3 * unit_judge_millis THEN "MAX1"
    ELSE old

\* the early return of GameNote.start_play
IsTooEarlyToStart(diff_millis) == diff_millis > 3 * unit_judge_millis

\* a variant of GameNote.start_play that reports the timing of a short note
\* with the opposite sign and gives the result of a long note at once
note_start_play_Eager(note, cm) ==
    IF ~HasTick(note.position)
    THEN [note |-> note, ret |-> NoResult, raised |-> "IndexError"]
    ELSE
    LET diff_millis == get_position_millis(note) - cm IN
    IF IsTooEarlyToStart(diff_millis)
    THEN [note |-> note, ret |-> NoResult, raised |-> "None"]
    ELSE
    LET rt == JudgeGrade(Abs(diff_millis), note.result_type)
        n1 == [note EXCEPT !.result_type = rt, !.play_result =
                   GameNotePlayResult(rt, get_position_millis(note) - cm, "None")]
        n2 == IF is_short(n1) THEN [n1 EXCEPT !.is_played = TRUE]
              ELSE [n1 EXCEPT !.is_playing = TRUE]
    IN [note |-> n2, ret |-> n2.play_result, raised |-> "None"]

\* GameNote.start_play: [note, ret, raised]
note_start_play(note, cm) ==
    IF ~HasTick(note.position)
    THEN [note |-> note, ret |-> NoResult, raised |-> "IndexError"]
    ELSE
    LET diff_millis == get_position_millis(note) - cm IN
    IF IsTooEarlyToStart(diff_millis)
    THEN [note |-> note, ret |-> NoResult, raised |-> "None"]
    ELSE
    LET rt == JudgeGrade(Abs(diff_millis), note.result_type)
        n1 == [note EXCEPT !.result_type = rt]
        n2 == IF is_short(n1)
              THEN [n1 EXCEPT !.is_played = TRUE,
                              !.play_result =
                                  GameNotePlayResult(rt, cm - get_position_millis(note), "None")]
              ELSE [n1 EXCEPT !.is_playing = TRUE]
    IN [note |-> n2, ret |-> n2.play_result, raised |-> "None"]

\* a variant that fails a note the moment it is 3 units late
is_too_late_to_start_Inclusive(note, cm) ==
    ~note.is_playing /\ (cm - get_position_millis(note)) >= 3 * unit_judge_millis

is_too_late_to_start(note, cm) ==
    ~note.is_playing /\ (cm - get_position_millis(note)) > 3 * unit_judge_millis

\* a variant with a release window of 4 units
is_too_early_to_finish_Wide(note, cm) ==
    get_end_position_millis(note) - cm > 4 * unit_judge_millis

is_too_early_to_finish(note, cm) ==
    get_end_position_millis(note) - cm > 3 * unit_judge_millis

is_too_late_to_finish(note, cm) ==
    cm - get_end_position_millis(note) > 3 * unit_judge_millis

\* GameNote.finish_play: [note, ret, raised]
note_finish_play(note, cm) ==
    IF is_long(note) /\ note.is_playing
    THEN LET n1 == [note EXCEPT !.is_played = TRUE, !.is_playing = FALSE] IN
         IF ~HasTick(get_end_position(note))
         THEN [note |-> n1, ret |-> NoResult, raised |-> "IndexError"]
         ELSE
         LET td == cm - get_end_position_millis(note)
             n2 == IF is_too_early_to_finish(n1, cm)
                   THEN [n1 EXCEPT !.result_type = "BREAK",
                                   !.play_result =
                                       GameNotePlayResult("BREAK", td, "TOO_EARLY_TO_FINISH")]
                   ELSE [n1 EXCEPT !.play_result =
                                       GameNotePlayResult(n1.result_type, td, "None")]
         IN [note |-> n2, ret |-> n2.play_result, raised |-> "None"]
    ELSE [note |-> note, ret |-> note.play_result, raised |-> "None"]

\* the table lookups of should_fail_to_play and fail are in range
fail_lookups_ok(note) ==
    IF note.is_playing THEN HasTick(get_end_position(note)) ELSE HasTick(note.position)

should_fail_to_play(note, cm) ==
    is_too_late_to_start(note, cm)
    \/ (note.is_playing /\ is_too_late_to_finish(note, cm))

\* a variant that grades a hold released too late as BREAK
note_fail_Break(note, cm) ==
    IF is_too_late_to_start(note, cm)
    THEN [note EXCEPT !.play_result =
              GameNotePlayResult("BREAK", cm - get_position_millis(note), "TOO_LATE_TO_START")]
    ELSE IF is_too_late_to_finish(note, cm)
    THEN [note EXCEPT !.play_result =
              GameNotePlayResult("BREAK", cm - get_end_position_millis(note), "TOO_LATE_TO_FINISH")]
    ELSE note

\* GameNote.fail: the note after it (its flags are left as they were)
note_fail(note, cm) ==
    IF is_too_late_to_start(note, cm)
    THEN [note EXCEPT !.play_result =
              GameNotePlayResult("BREAK", cm - get_position_millis(note), "TOO_LATE_TO_START")]
    ELSE IF is_too_late_to_finish(note, cm)
    THEN [note EXCEPT !.play_result =
              GameNotePlayResult("MAX1", cm - get_end_position_millis(note), "TOO_LATE_TO_FINISH")]
    ELSE note

(***************************************************************************)
(* GameTrack: [notes, current_index, current_play_index, is_playing];      *)
(* cursors are 0-based as in the source, notes[i + 1] is note i.           *)
(***************************************************************************)
GameTrack(track_notes) ==
    [notes |-> [i \in 1..Len(track_notes) |-> GameNote(track_notes[i])],
     current_index |-> 0, current_play_index |-> 0, is_playing |-> FALSE]

\* GameTrack.find_note_index for the predicate note.is_playable()
RECURSIVE FindPlayable(_, _)
FindPlayable(notes, start_index) ==
    IF start_index >= Len(notes) THEN Len(notes)
    ELSE IF note_is_playable(notes[start_index + 1]) THEN start_index
    ELSE FindPlayable(notes, start_index + 1)

\* GameTrack.find_note_index for the predicate note.get_position() >= tick
RECURSIVE FindPosition(_, _, _)
FindPosition(notes, tick, start_index) ==
    IF start_index >= Len(notes) THEN Len(notes)
    ELSE IF notes[start_index + 1].position >= tick THEN start_index
    ELSE FindPosition(notes, tick, start_index + 1)

set_play_index(track, play_index) ==
    [track EXCEPT !.current_play_index = FindPlayable(track.notes, play_index)]

increment_play_index(track) == set_play_index(track, track.current_play_index + 1)

set_play_index_for_tick(track, tick) ==
    set_play_index(track, FindPosition(track.notes, tick, 0))

set_index_for_tick(track, tick) ==
    [track EXCEPT !.current_index = FindPosition(track.notes, tick, 0)]

track_reset_play_status(track) ==
    [track EXCEPT !.current_play_index = 0,
                  !.notes = [i \in 1..Len(track.notes) |->
                                note_reset_play_status(track.notes[i])]]

HasPlayHead(track) == track.current_play_index < Len(track.notes)
get_play_head_note(track) == track.notes[track.current_play_index + 1]
HasHead(track) == track.current_index < Len(track.notes)
get_head_note(track) == track.notes[track.current_index + 1]

\* GameTrack.start_play: [track, ret, raised, acted]; acted says the head
\* note's start_play was called
track_start_play(track, cm) ==
    IF track.is_playing
    THEN [track |-> track, ret |-> NoResult, raised |-> "None", acted |-> FALSE]
    ELSE
    LET t1 == [track EXCEPT !.is_playing = TRUE] IN
    IF ~HasPlayHead(t1)
    THEN [track |-> t1, ret |-> NoResult, raised |-> "None", acted |-> FALSE]
    ELSE
    LET r  == note_start_play(get_play_head_note(t1), cm)
        t2 == [t1 EXCEPT !.notes[t1.current_play_index + 1] = r.note]
        t3 == IF r.raised = "None" /\ r.note.is_played THEN increment_play_index(t2) ELSE t2
    IN [track |-> t3, ret |-> r.ret, raised |-> r.raised, acted |-> TRUE]

\* GameTrack.finish_play
track_finish_play(track, cm) ==
    IF ~track.is_playing
    THEN [track |-> track, ret |-> NoResult, raised |-> "None", acted |-> FALSE]
    ELSE
    LET t1 == [track EXCEPT !.is_playing = FALSE] IN
    IF ~HasPlayHead(t1)
    THEN [track |-> t1, ret |-> NoResult, raised |-> "None", acted |-> FALSE]
    ELSE
    LET r  == note_finish_play(get_play_head_note(t1), cm)
        t2 == [t1 EXCEPT !.notes[t1.current_play_index + 1] = r.note]
        t3 == IF r.raised = "None" /\ r.note.is_played THEN increment_play_index(t2) ELSE t2
    IN [track |-> t3, ret |-> r.ret, raised |-> r.raised, acted |-> TRUE]

(***************************************************************************)
(* Timeline Builder: the sweep of GameSequencePlayer.open_ptfile           *)
(***************************************************************************)
\* a variant of the interval with the sign of the division lost
TickInterval_Negated(tpm, tmp) == 0 - ((MillisPerMeasureAtOneBpm \div tpm) \div tmp)

\* 240000 / ticks_per_measure / tempo
TickInterval(tpm, tmp) == (MillisPerMeasureAtOneBpm \div tpm) \div tmp

\* a variant of the drain with an `if` for the `while`: at most one head note
\* is taken in a call
DrainBpm_Once(notes, index, tick, tpm, tmp, itv) ==
    IF index < Len(notes) /\ notes[index + 1].position <= tick
    THEN IF notes[index + 1].command_type = BPM
         THEN [index |-> index + 1, tempo |-> notes[index + 1].tempo,
               interval |-> TickInterval(tpm, notes[index + 1].tempo)]
         ELSE [index |-> index + 1, tempo |-> tmp, interval |-> itv]
    ELSE [index |-> index, tempo |-> tmp, interval |-> itv]

\* drain one track's head notes with position <= tick, a BPM note setting
\* tempo and interval: [index, tempo, interval]
RECURSIVE DrainBpm(_, _, _, _, _, _)
DrainBpm(notes, index, tick, tpm, tmp, itv) ==
    IF index < Len(notes) /\ notes[index + 1].position <= tick
    THEN IF notes[index + 1].command_type = BPM
         THEN DrainBpm(notes, index + 1, tick, tpm, notes[index + 1].tempo,
                       TickInterval(tpm, notes[index + 1].tempo))
         ELSE DrainBpm(notes, index + 1, tick, tpm, tmp, itv)
    ELSE [index |-> index, tempo |-> tmp, interval |-> itv]

\* the tracks of `order` from position k on, one after the other, at one tick:
\* [indices, tempo, interval]
RECURSIVE DrainTracks(_, _, _, _, _, _, _, _)
DrainTracks(tracks, order, k, indices, tick, tpm, tmp, itv) ==
    IF k > Len(order) THEN [indices |-> indices, tempo |-> tmp, interval |-> itv]
    ELSE LET t == order[k]
             d == DrainBpm(tracks[t], indices[t], tick, tpm, tmp, itv)
         IN DrainTracks(tracks, order, k + 1, [indices EXCEPT ![t] = d.index],
                        tick, tpm, d.tempo, d.interval)

\* ticks cursor_tick .. total - 1: [tempos, played, intervals, tempo, played_millis,
\* interval, indices]
RECURSIVE SweepTicks(_, _, _, _, _, _, _, _, _)
SweepTicks(tracks, order, tpm, total, cursor_tick, indices, tmp, played, itv) ==
    IF cursor_tick >= total
    THEN [tempos |-> <<>>, played |-> <<>>, intervals |-> <<>>,
          tempo |-> tmp, played_millis |-> played, interval |-> itv, indices |-> indices]
    ELSE LET played1 == played + itv
             d == DrainTracks(tracks, order, 1, indices, cursor_tick, tpm, tmp, itv)
             rest == SweepTicks(tracks, order, tpm, total, cursor_tick + 1,
                                d.indices, d.tempo, played1, d.interval)
         IN [played |-> <<played1>> \o rest.played,
             tempos |-> <<d.tempo>> \o rest.tempos,
             intervals |-> <<d.interval>> \o rest.intervals,
             tempo |-> rest.tempo, played_millis |-> rest.played_millis,
             interval |-> rest.interval, indices |-> rest.indices]

EffectiveTracks(c) == {t \in DOMAIN Chart(c).tracks : Chart(c).tracks[t] # <<>>}

BuildTimeline_Short(c) ==
    LET ch == Chart(c)
        eff == EffectiveTracks(c)
    IN SweepTicks(ch.tracks, SortedSeq(eff), ch.ticks_per_measure, ch.total_ticks - 1,
                  0, [t \in eff |-> 0], 0, 0, 0)

BuildTimeline(c) ==
    LET ch == Chart(c)
        eff == EffectiveTracks(c)
    IN SweepTicks(ch.tracks, SortedSeq(eff), ch.ticks_per_measure, ch.total_ticks,
                  0, [t \in eff |-> 0], 0, 0, 0)

(***************************************************************************)
(* Overlap detection of the sweep and the Channel Allocator                *)
(***************************************************************************)
NoNote == [some |-> FALSE, position |-> 0, sound_duration_millis |-> 0]

\* the sounds overlap: the previous note's start plus its sound's length is
\* past the swept tick's time
SoundsOverlap(prev_millis, prev_sound_millis, played) ==
    prev_millis + prev_sound_millis > played

\* one track's head notes with position <= tick, read at the sweep's tick
\* cursor_tick, when the table of played millis has cursor_tick entries:
\* [index, prev, flagged, raised]
RECURSIVE OverlapNotes(_, _, _, _, _, _)
OverlapNotes(notes, index, cursor_tick, prev, flagged, played) ==
    IF ~(index < Len(notes) /\ notes[index + 1].position <= cursor_tick)
    THEN [index |-> index, prev |-> prev, flagged |-> flagged, raised |-> "None"]
    ELSE
    LET note == notes[index + 1]
        prev1 == IF note.command_type = GENERAL
                 THEN [some |-> TRUE, position |-> note.position,
                       sound_duration_millis |-> note.sound_duration_millis]
                 ELSE prev
    IN IF note.command_type = GENERAL /\ ~flagged /\ prev.some
       THEN IF prev.position >= cursor_tick
            THEN [index |-> index, prev |-> prev, flagged |-> flagged,
                  raised |-> "IndexError"]
            ELSE OverlapNotes(notes, index + 1, cursor_tick, prev1,
                              SoundsOverlap(played[prev.position + 1],
                                            prev.sound_duration_millis,
                                            played[cursor_tick + 1]),
                              played)
       ELSE OverlapNotes(notes, index + 1, cursor_tick, prev1, flagged, played)

\* the tracks of `order` from position k on at one tick: [st, raised], st the
\* per-track [index, prev, flagged]
RECURSIVE OverlapTracks(_, _, _, _, _, _)
OverlapTracks(tracks, order, k, st, cursor_tick, played) ==
    IF k > Len(order) THEN [st |-> st, raised |-> "None"]
    ELSE LET t == order[k]
             r == OverlapNotes(tracks[t], st[t].index, cursor_tick, st[t].prev,
                               st[t].flagged, played)
             st1 == [st EXCEPT ![t] = [index |-> r.index, prev |-> r.prev,
                                       flagged |-> r.flagged]]
         IN IF r.raised # "None" THEN [st |-> st1, raised |-> r.raised]
            ELSE OverlapTracks(tracks, order, k + 1, st1, cursor_tick, played)

\* ticks cursor_tick .. total - 1: [st, raised, tick], tick the number of
\* ticks the sweep completed
RECURSIVE OverlapTicks(_, _, _, _, _, _)
OverlapTicks(tracks, order, total, cursor_tick, st, played) ==
    IF cursor_tick >= total THEN [st |-> st, raised |-> "None", tick |-> cursor_tick]
    ELSE LET r == OverlapTracks(tracks, order, 1, st, cursor_tick, played)
         IN IF r.raised # "None"
            THEN [st |-> r.st, raised |-> r.raised, tick |-> cursor_tick]
            ELSE OverlapTicks(tracks, order, total, cursor_tick + 1, r.st, played)

\* the overlap detection of open_ptfile's sweep, given the table it builds
DetectOverlap(c, played) ==
    LET ch == Chart(c)
        eff == EffectiveTracks(c)
    IN OverlapTicks(ch.tracks, SortedSeq(eff), ch.total_ticks, 0,
                    [t \in eff |-> [index |-> 0, prev |-> NoNote, flagged |-> FALSE]],
                    played)

\* GameTrackType.get_track_type(track_index) is FG1
FirstFG1Track == 2
FirstFG2Track == 12
IsFG1(track_index) == FirstFG1Track <= track_index /\ track_index < FirstFG2Track

\* track_has_any_general_note
HasAnyGeneralNote(track_notes) ==
    \E i \in 1..Len(track_notes) : track_notes[i].command_type = GENERAL

NumberOfChannels_NoCategory(c, has_overlap) ==
    [t \in EffectiveTracks(c) |->
        IF ~HasAnyGeneralNote(Chart(c).tracks[t]) THEN 0
        ELSE IF has_overlap[t] THEN 2
        ELSE 1]

\* number_of_channels_per_track
NumberOfChannels(c, has_overlap) ==
    [t \in EffectiveTracks(c) |->
        IF ~HasAnyGeneralNote(Chart(c).tracks[t]) THEN 0
        ELSE IF has_overlap[t] \/ IsFG1(t) THEN 2
        ELSE 1]

(***************************************************************************)
(* Score Aggregator (GamePatternPlayer)                                    *)
(***************************************************************************)
RECURSIVE Gcd(_, _)
Gcd(a, b) == IF b = 0 THEN a ELSE Gcd(b, a % b)

\* a non-negative rational in lowest terms
Rational(n, d) == LET g == Gcd(n, d) IN [num |-> n \div g, den |-> d \div g]

ZeroScore ==
    [play_result_count |-> 0, combo_count |-> 0,
     average_accuracy |-> Rational(0, 1),
     result_type_counts |-> [g \in Grades |-> 0]]

\* a variant of the aggregator whose combo survives a BREAK
on_play_result_KeepCombo(sc, play_result) ==
    [play_result_count |-> sc.play_result_count + 1,
     combo_count |-> sc.combo_count + 1,
     average_accuracy |-> sc.average_accuracy,
     result_type_counts |->
         [sc.result_type_counts EXCEPT ![play_result.result_type] = @ + 1]]

\* a variant of the aggregator that keeps no count of the BREAK results
on_play_result_NoBreakCount(sc, play_result) ==
    [play_result_count |-> sc.play_result_count + 1,
     combo_count |-> IF play_result.result_type = "BREAK" THEN 0
                     ELSE sc.combo_count + 1,
     average_accuracy |-> sc.average_accuracy,
     result_type_counts |->
         IF play_result.result_type = "BREAK" THEN sc.result_type_counts
         ELSE [sc.result_type_counts EXCEPT ![play_result.result_type] = @ + 1]]

\* GamePatternPlayer.on_play_result; the average is the exact rational
\* average * (count - 1) / count + result_type / count
on_play_result(sc, play_result) ==
    LET count == sc.play_result_count + 1
        avg == sc.average_accuracy
        g == GradeValue(play_result.result_type)
    IN [play_result_count |-> count,
        combo_count |-> IF play_result.result_type = "BREAK" THEN 0
                        ELSE sc.combo_count + 1,
        average_accuracy |-> Rational(avg.num * (count - 1) + g * avg.den,
                                      avg.den * count),
        result_type_counts |->
            [sc.result_type_counts EXCEPT ![play_result.result_type] = @ + 1]]

\* the guard of play_button and on_tick before on_play_result
IsReported(play_result) == play_result.some /\ play_result.result_type # "None"

(***************************************************************************)
(* GameTrackChannel: [channels, volume, channel_index]; a channel is the   *)
(* number i of pygame's Channel(i), a volume is counted in 127ths.         *)
(***************************************************************************)
VolumeScale == 127

GameTrackChannel(channels) ==
    [channels |-> channels, volume |-> VolumeScale, channel_index |-> 0]

\* a variant of the picker that does not wrap: the index stays on the last
\* channel of the range
find_free_channel_NoWrap(track_channel) ==
    IF track_channel.channel_index >= Len(track_channel.channels)
    THEN [track_channel |-> track_channel, free_channel |-> -1, raised |-> "IndexError"]
    ELSE LET next == track_channel.channel_index + 1
         IN [track_channel |->
                [track_channel EXCEPT !.channel_index =
                    IF next >= Len(track_channel.channels) THEN track_channel.channel_index
                    ELSE next],
             free_channel |-> track_channel.channels[track_channel.channel_index + 1],
             raised |-> "None"]

\* GameTrackChannel.find_free_channel: [track_channel, free_channel, raised];
\* self._channels[self._channel_index] of an empty list is an IndexError
find_free_channel(track_channel) ==
    IF track_channel.channel_index >= Len(track_channel.channels)
    THEN [track_channel |-> track_channel, free_channel |-> -1, raised |-> "IndexError"]
    ELSE LET next == track_channel.channel_index + 1
         IN [track_channel |->
                [track_channel EXCEPT !.channel_index =
                    IF next >= Len(track_channel.channels)
                    THEN next - Len(track_channel.channels)
                    ELSE next],
             free_channel |-> track_channel.channels[track_channel.channel_index + 1],
             raised |-> "None"]

\* sum(self._number_of_channels_per_track.values())
RECURSIVE TotalNumberOfChannels(_, _, _)
TotalNumberOfChannels(sizes, order, k) ==
    IF k > Len(order) THEN 0
    ELSE sizes[order[k]] + TotalNumberOfChannels(sizes, order, k + 1)

\* a variant of the partition in which every range starts at 0
RECURSIVE partition_list_by_size_FromZero(_, _, _, _, _)
partition_list_by_size_FromZero(lst, sizes, order, k, end) ==
    IF k > Len(order) THEN [t \in {} |-> <<>>]
    ELSE LET key  == order[k]
             item == SubSeq(lst, 1, Min(sizes[key], Len(lst)))
             rest == partition_list_by_size_FromZero(lst, sizes, order, k + 1, end)
         IN [t \in {key} \cup DOMAIN rest |-> IF t = key THEN item ELSE rest[t]]

\* partition_list_by_size(lst, sizes) for a dict `sizes` iterated in `order`,
\* keys from position k on, the previous slice ending at `end`: lst[start:end]
RECURSIVE partition_list_by_size(_, _, _, _, _)
partition_list_by_size(lst, sizes, order, k, end) ==
    IF k > Len(order) THEN [t \in {} |-> <<>>]
    ELSE LET key   == order[k]
             start == end
             end1  == start + sizes[key]
             item  == SubSeq(lst, Min(start, Len(lst)) + 1, Min(end1, Len(lst)))
             rest  == partition_list_by_size(lst, sizes, order, k + 1, end1)
         IN [t \in {key} \cup DOMAIN rest |-> IF t = key THEN item ELSE rest[t]]

\* self._channel_per_track of open_ptfile, over Channel(0) .. Channel(total - 1)
ChannelPerTrack(sizes) ==
    LET order == SortedSeq(DOMAIN sizes)
        total == TotalNumberOfChannels(sizes, order, 1)
        pygame_channels == [i \in 1..total |-> i - 1]
        parts == partition_list_by_size(pygame_channels, sizes, order, 1, 0)
    IN [t \in DOMAIN parts |-> GameTrackChannel(parts[t])]

\* no exception, the channels, the beat and the sounds triggered so far
Processing(channels, b) ==
    [channels |-> channels, beat |-> b, sounds |-> <<>>, raised |-> "None"]

\* GameNote.process of one note (its on_process closure): a GENERAL note
\* plays its sound on the track's next channel, a VOLUME note sets the track
\* volume, a BEAT note the beat (the tempo of a BPM note is ProcessedTempo)
process(note, n, st) ==
    CASE note.command_type = GENERAL ->
            LET f == find_free_channel(st.channels[n.track])
            IN IF f.raised # "None" THEN [st EXCEPT !.raised = f.raised]
               ELSE [st EXCEPT !.channels[n.track] = f.track_channel,
                               !.sounds = Append(@, [track |-> n.track, index |-> n.index,
                                                     channel |-> f.free_channel,
                                                     volume |-> f.track_channel.volume])]
      [] note.command_type = VOLUME ->
            [st EXCEPT !.channels[n.track].volume = note.volume]
      [] note.command_type = BEAT -> [st EXCEPT !.beat = note.beat]
      [] OTHER -> st

\* `for note in notes_to_process: note.process()` from position k on; an
\* exception ends the loop
RECURSIVE ProcessNotes(_, _, _, _)
ProcessNotes(tracks, processed, k, st) ==
    IF k > Len(processed) \/ st.raised # "None" THEN st
    ELSE LET n == processed[k]
         IN ProcessNotes(tracks, processed, k + 1,
                         process(tracks[n.track].notes[n.index + 1], n, st))

(***************************************************************************)
(* Observation of the last operation                                       *)
(***************************************************************************)
\* one call of GameNote.start_play / finish_play / fail (or a silent skip of
\* the sweep): the track, the judgment cursor and the note before the call,
\* what was returned, and whether it went to on_play_result
Event(t, i, pre, ret) ==
    [track |-> t, index |-> i, pre |-> pre, ret |-> ret, reported |-> IsReported(ret)]

Last(op, cm, events) ==
    [op |-> op, cm |-> cm, events |-> events, processed |-> <<>>, sounds |-> <<>>]

\* the score after the reported results of a sequence of events, in order
RECURSIVE ScoreAfter(_, _, _)
ScoreAfter(sc, events, k) ==
    IF k > Len(events) THEN sc
    ELSE ScoreAfter(IF events[k].reported THEN on_play_result(sc, events[k].ret) ELSE sc,
                    events, k + 1)

\* a note's reports are counted up to this many
ReportCap == 2

RECURSIVE CountAfter(_, _, _)
CountAfter(rc, events, k) ==
    IF k > Len(events) THEN rc
    ELSE LET e == events[k]
         IN CountAfter(IF e.reported
                       THEN [rc EXCEPT ![e.track][e.index + 1] = Min(@ + 1, ReportCap)]
                       ELSE rc,
                       events, k + 1)

ZeroReports(tracks) ==
    [t \in DOMAIN tracks |-> [i \in 1..Len(tracks[t].notes) |-> 0]]

\* a note's runtime state as the spec names it; GameNote.fail sets no flag,
\* a failed note is known by the fail reason of its stored result
NoteState(note) ==
    IF note.is_played THEN "Played"
    ELSE IF note.play_result.some
            /\ note.play_result.reason \in {"TOO_LATE_TO_START", "TOO_LATE_TO_FINISH"}
         THEN "Failed"
    ELSE IF note.is_playing THEN "Playing"
    ELSE "NotStarted"

(***************************************************************************)
(* GameSequencePlayer                                                      *)
(***************************************************************************)
ticks_per_measure == IF ptfile = "None" THEN 0 ELSE Chart(ptfile).ticks_per_measure
total_ticks       == IF ptfile = "None" THEN 0 ELSE Chart(ptfile).total_ticks

\* the interactive tracks of a game mode, in dict order
PlayableList(tracks, mode) ==
    SortedSeq({t \in DOMAIN tracks : is_playable_track(mode, t)})

game_tracks_list == SortedSeq(DOMAIN game_tracks_dict)

TrackNotes(tracks) == [t \in DOMAIN tracks |-> tracks[t].notes]

\* reset_progress on the tracks: set_index(0) on every track, reset_play_status
\* on the interactive ones
ResetProgressTracks(tracks, playable) ==
    [t \in DOMAIN tracks |->
        LET t1 == [tracks[t] EXCEPT !.current_index = 0]
        IN IF t \in SeqToSet(playable) THEN track_reset_play_status(t1) ELSE t1]

\* GameSequencePlayer.reset_play_status on the tracks
ResetPlayStatusTracks(tracks, playable) ==
    [t \in DOMAIN tracks |->
        IF t \in SeqToSet(playable) THEN track_reset_play_status(tracks[t]) ELSE tracks[t]]

ResetClock ==
    /\ current_tick' = 0
    /\ current_millis' = -1
    /\ started_millis' = -1
    /\ elapsed_millis' = -1
    /\ played_millis' = -1
    /\ paused_millis' = -1

\* GameSequencePlayer.reset_progress
reset_progress ==
    /\ ResetClock
    /\ game_tracks_dict' = ResetProgressTracks(game_tracks_dict, game_playable_tracks_list)
    /\ score' = ZeroScore
    /\ report_count' = ZeroReports(game_tracks_dict)

Timeline == <<tempos_per_tick, played_millis_per_tick, tick_interval_millis_per_tick,
             track_has_any_overlap, number_of_channels_per_track>>
Env == <<now, frame>>

\* GameSequencePlayer.open_ptfile (after its stop_play); an IndexError of the
\* sweep ends the load at the tick it is raised
OpenPtfile(c) ==
    /\ raised = "None"
    /\ LET ch == Chart(c)
           tracks == [t \in EffectiveTracks(c) |-> GameTrack(ch.tracks[t])]
           tl == BuildTimeline(c)
           ov == DetectOverlap(c, tl.played)
           has_overlap == [t \in EffectiveTracks(c) |-> ov.st[t].flagged]
           done == ov.raised = "None"
       IN /\ ptfile' = c
          /\ game_tracks_dict' = tracks
          /\ game_playable_tracks_list' = PlayableList(tracks, game_mode)
          /\ tempos_per_tick' = SubSeq(tl.tempos, 1, ov.tick)
          /\ played_millis_per_tick' = SubSeq(tl.played, 1, ov.tick)
          /\ tick_interval_millis_per_tick' = SubSeq(tl.intervals, 1, ov.tick)
          /\ track_has_any_overlap' = has_overlap
          /\ number_of_channels_per_track' =
                IF done THEN NumberOfChannels(c, has_overlap)
                ELSE number_of_channels_per_track
          /\ channel_per_track' =
                IF done THEN ChannelPerTrack(NumberOfChannels(c, has_overlap))
                ELSE channel_per_track
          /\ tempo' = IF done THEN ch.master_bpm ELSE tempo
          /\ tick_interval_millis' =
                IF done THEN TickInterval(ch.ticks_per_measure, ch.master_bpm)
                ELSE tick_interval_millis
          /\ beat' = IF done THEN DefaultBeat ELSE beat
          /\ report_count' = ZeroReports(tracks)
          /\ is_playable' = IF done THEN TRUE ELSE is_playable
          /\ raised' = ov.raised
    /\ ResetClock
    /\ score' = ZeroScore
    /\ is_playing' = FALSE
    /\ last' = Last("OpenPtfile", 0, <<>>)
    /\ UNCHANGED <<Decoder, loop, ptfiles, is_auto_play, game_mode, ignore_play_keys, input_game_mode, Env>>

\* GameSequencePlayer.start_play
StartPlay ==
    /\ raised = "None"
    /\ IF ~is_playing
       THEN /\ reset_progress
            /\ is_playing' = is_playable
       ELSE UNCHANGED <<current_tick, current_millis, started_millis, elapsed_millis,
                        played_millis, paused_millis, game_tracks_dict, score,
                        report_count, is_playing>>
    /\ last' = Last("StartPlay", 0, <<>>)
    /\ UNCHANGED <<Decoder, loop, channel_per_track, ptfiles, ptfile, game_playable_tracks_list, Timeline, tempo, beat,
                   tick_interval_millis, is_playable, is_auto_play, game_mode,
                   ignore_play_keys, input_game_mode, Env, raised>>

\* GameSequencePlayer.stop_play
StopPlay ==
    /\ raised = "None"
    /\ is_playing' = FALSE
    /\ reset_progress
    /\ last' = Last("StopPlay", 0, <<>>)
    /\ UNCHANGED <<Decoder, loop, channel_per_track, ptfiles, ptfile, game_playable_tracks_list, Timeline, tempo, beat,
                   tick_interval_millis, is_playable, is_auto_play, game_mode,
                   ignore_play_keys, input_game_mode, Env, raised>>

\* GameSequencePlayer.pause_play
PausePlay ==
    /\ raised = "None"
    /\ IF is_playing
       THEN /\ is_playing' = FALSE
            /\ paused_millis' = now
       ELSE UNCHANGED <<is_playing, paused_millis>>
    /\ last' = Last("PausePlay", 0, <<>>)
    /\ UNCHANGED <<Decoder, loop, channel_per_track, ptfiles, ptfile, game_tracks_dict, game_playable_tracks_list, Timeline, tempo,
                   beat, tick_interval_millis, current_tick, current_millis,
                   started_millis, elapsed_millis, played_millis, is_playable,
                   is_auto_play, game_mode, ignore_play_keys, input_game_mode, score,
                   Env, raised, report_count>>

\* GameSequencePlayer.sync_with_current_tick on the tracks and the live clock:
\* [tracks, tempo, interval, played_millis]
sync_with_current_tick ==
    LET t1 == [t \in DOMAIN game_tracks_dict |->
                  IF t \in SeqToSet(game_playable_tracks_list)
                  THEN set_play_index_for_tick(game_tracks_dict[t], current_tick)
                  ELSE game_tracks_dict[t]]
        sw == SweepTicks(TrackNotes(t1), game_tracks_list, ticks_per_measure,
                         current_tick, 0, [t \in DOMAIN t1 |-> 0], 0, 0, 0)
    IN [tracks |-> [t \in DOMAIN t1 |-> [t1[t] EXCEPT !.current_index = sw.indices[t]]],
        tempo |-> sw.tempo, interval |-> sw.interval, played_millis |-> sw.played_millis]

\* GameSequencePlayer.resume_play
ResumePlay ==
    /\ raised = "None"
    /\ IF ~is_playing
       THEN /\ is_playing' = is_playable
            /\ IF paused_millis < 0
               THEN LET s == sync_with_current_tick
                    IN /\ game_tracks_dict' = s.tracks
                       /\ tempo' = s.tempo
                       /\ tick_interval_millis' = s.interval
                       /\ started_millis' = -1
                       /\ played_millis' = s.played_millis
               ELSE UNCHANGED <<game_tracks_dict, tempo, tick_interval_millis,
                                started_millis, played_millis>>
       ELSE UNCHANGED <<is_playing, game_tracks_dict, tempo, tick_interval_millis,
                        started_millis, played_millis>>
    /\ last' = Last("ResumePlay", 0, <<>>)
    /\ UNCHANGED <<Decoder, loop, channel_per_track, ptfiles, ptfile, game_playable_tracks_list, Timeline, beat, current_tick,
                   current_millis, elapsed_millis, paused_millis, is_playable,
                   is_auto_play, game_mode, ignore_play_keys, input_game_mode, score,
                   Env, raised, report_count>>

\* GameSequencePlayer.set_current_tick
set_current_tick(tick) ==
    /\ is_playing' = FALSE
    /\ paused_millis' = IF paused_millis > 0 THEN -1 ELSE paused_millis
    /\ current_tick' = tick
    /\ game_tracks_dict' = ResetPlayStatusTracks(game_tracks_dict, game_playable_tracks_list)

\* GameSequencePlayer.set_current_tick called with a tick of the chart
SetCurrentTick(tick) ==
    /\ raised = "None"
    /\ set_current_tick(tick)
    /\ report_count' = ZeroReports(game_tracks_dict)
    /\ last' = Last("SetCurrentTick", tick, <<>>)
    /\ UNCHANGED <<Decoder, loop, channel_per_track, ptfiles, ptfile, game_playable_tracks_list, Timeline, tempo, beat,
                   tick_interval_millis, current_millis, started_millis, elapsed_millis,
                   played_millis, is_playable, is_auto_play, game_mode,
                   ignore_play_keys, input_game_mode, score, Env, raised>>

\* the seek steps offered to offset_current_tick
SeekTicks == 4

\* GameSequencePlayer.offset_current_tick, for seeks that stay within the chart
OffsetCurrentTick(delta_tick) ==
    /\ raised = "None"
    /\ current_tick + delta_tick <= total_ticks
    /\ set_current_tick(Max(0, current_tick + delta_tick))
    /\ report_count' = ZeroReports(game_tracks_dict)
    /\ last' = Last("OffsetCurrentTick", 0, <<>>)
    /\ UNCHANGED <<Decoder, loop, channel_per_track, ptfiles, ptfile, game_playable_tracks_list, Timeline, tempo, beat,
                   tick_interval_millis, current_millis, started_millis, elapsed_millis,
                   played_millis, is_playable, is_auto_play, game_mode,
                   ignore_play_keys, input_game_mode, score, Env, raised>>

\* GameActions.set_game_mode: the sequence player and the input handler
SetGameMode(mode) ==
    /\ raised = "None"
    /\ game_mode' = mode
    /\ input_game_mode' = mode
    /\ LET playable == PlayableList(game_tracks_dict, mode)
       IN /\ game_playable_tracks_list' = playable
          /\ game_tracks_dict' =
                [t \in DOMAIN game_tracks_dict |->
                    IF t \in SeqToSet(playable)
                    THEN set_play_index_for_tick(game_tracks_dict[t], current_tick)
                    ELSE game_tracks_dict[t]]
    /\ last' = Last("SetGameMode", 0, <<>>)
    /\ UNCHANGED <<Decoder, loop, channel_per_track, ptfiles, ptfile, Timeline, tempo, beat, tick_interval_millis, current_tick,
                   current_millis, started_millis, elapsed_millis, played_millis,
                   paused_millis, is_playable, is_playing, is_auto_play,
                   ignore_play_keys, score, Env, raised, report_count>>

\* GameActions.toggle_auto_play
ToggleAutoPlay ==
    /\ raised = "None"
    /\ is_auto_play' = ~is_auto_play
    /\ ignore_play_keys' = ~is_auto_play
    /\ last' = Last("ToggleAutoPlay", 0, <<>>)
    /\ UNCHANGED <<Decoder, loop, channel_per_track, ptfiles, ptfile, game_tracks_dict, game_playable_tracks_list, Timeline, tempo,
                   beat, tick_interval_millis, current_tick, current_millis,
                   started_millis, elapsed_millis, played_millis, paused_millis,
                   is_playable, is_playing, game_mode, input_game_mode, score, Env,
                   raised, report_count>>

(***************************************************************************)
(* Key events: GameInputHandler.on_event -> GamePatternPlayer.play_button  *)
(***************************************************************************)
\* a key of the current mapping is pressed or released on an existing track
KeyEnabled(t) ==
    /\ raised = "None"
    /\ ~ignore_play_keys
    /\ t \in get_track_indices(input_game_mode)
    /\ t \in DOMAIN game_tracks_dict

\* GameNote.process of a BPM note: set_tempo
ProcessedTempo(note, tmp) == IF note.command_type = BPM THEN note.tempo ELSE tmp

PlayButtonFrame ==
    UNCHANGED <<Decoder, loop, ptfiles, ptfile, game_playable_tracks_list, Timeline, current_tick,
                current_millis, started_millis, elapsed_millis, played_millis,
                paused_millis, is_playable, is_playing, is_auto_play, game_mode,
                ignore_play_keys, input_game_mode, Env>>

\* play_button(button, KEYDOWN)
KeyDown(t) ==
    /\ KeyEnabled(t)
    /\ LET track == game_tracks_dict[t]
           r0 == track_start_play(track, elapsed_millis)
           pr == IF r0.acted
                 THEN process(get_play_head_note(track),
                              [track |-> t, index |-> track.current_play_index],
                              Processing(channel_per_track, beat))
                 ELSE Processing(channel_per_track, beat)
           r == IF pr.raised = "None" THEN r0
                ELSE [track |-> [track EXCEPT !.is_playing = TRUE], ret |-> NoResult,
                      raised |-> pr.raised, acted |-> FALSE]
           events == IF r.acted
                     THEN <<Event(t, track.current_play_index,
                                  get_play_head_note(track), r.ret)>>
                     ELSE <<>>
           tmp == IF r0.acted THEN ProcessedTempo(get_play_head_note(track), tempo)
                  ELSE tempo
       IN /\ game_tracks_dict' = [game_tracks_dict EXCEPT ![t] = r.track]
          /\ channel_per_track' = pr.channels
          /\ beat' = pr.beat
          /\ raised' = r.raised
          /\ score' = ScoreAfter(score, events, 1)
          /\ report_count' = CountAfter(report_count, events, 1)
          /\ tempo' = tmp
          /\ tick_interval_millis' =
                IF tmp = tempo THEN tick_interval_millis
                ELSE TickInterval(ticks_per_measure, tmp)
          /\ last' = [Last("KeyDown", elapsed_millis, events) EXCEPT !.sounds = pr.sounds]
    /\ PlayButtonFrame

\* play_button(button, KEYUP)
KeyUp(t) ==
    /\ KeyEnabled(t)
    /\ LET track == game_tracks_dict[t]
           r == track_finish_play(track, elapsed_millis)
           events == IF r.acted
                     THEN <<Event(t, track.current_play_index,
                                  get_play_head_note(track), r.ret)>>
                     ELSE <<>>
       IN /\ game_tracks_dict' = [game_tracks_dict EXCEPT ![t] = r.track]
          /\ raised' = r.raised
          /\ score' = ScoreAfter(score, events, 1)
          /\ report_count' = CountAfter(report_count, events, 1)
          /\ last' = Last("KeyUp", elapsed_millis, events)
    /\ UNCHANGED <<tempo, tick_interval_millis, beat, channel_per_track>>
    /\ PlayButtonFrame

(***************************************************************************)
(* Frames: Game.on_tick = on_tick_start, events, GameSequencePlayer.on_tick *)
(***************************************************************************)
\* a variant of on_tick_start that samples the clock whether playing or not
OnTickStart_Always(delta) ==
    /\ raised = "None"
    /\ frame = "idle"
    /\ now + delta <= ClockStart + MaxClock
    /\ now' = now + delta
    /\ frame' = "started"
    /\ current_millis' = now + delta
    /\ last' = Last("OnTickStart", 0, <<>>)
    /\ UNCHANGED <<Decoder, loop, channel_per_track, ptfiles, ptfile, game_tracks_dict, game_playable_tracks_list, Timeline, tempo,
                   beat, tick_interval_millis, current_tick, started_millis,
                   elapsed_millis, played_millis, paused_millis, is_playable,
                   is_playing, is_auto_play, game_mode, ignore_play_keys,
                   input_game_mode, score, raised, report_count>>

\* the clock is sampled delta ms after the previous sample
OnTickStart(delta) ==
    /\ raised = "None"
    /\ frame = "idle"
    /\ now + delta <= ClockStart + MaxClock
    /\ now' = now + delta
    /\ frame' = "started"
    /\ current_millis' = IF is_playing THEN now + delta ELSE current_millis
    /\ last' = Last("OnTickStart", 0, <<>>)
    /\ UNCHANGED <<Decoder, loop, channel_per_track, ptfiles, ptfile, game_tracks_dict, game_playable_tracks_list, Timeline, tempo,
                   beat, tick_interval_millis, current_tick, started_millis,
                   elapsed_millis, played_millis, paused_millis, is_playable,
                   is_playing, is_auto_play, game_mode, ignore_play_keys,
                   input_game_mode, score, raised, report_count>>

\* a variant of the sweep that fails the overdue notes in auto-play too
RECURSIVE SweepTrack_Judging(_, _, _, _)
SweepTrack_Judging(track, t, cm, auto) ==
    IF ~HasPlayHead(track)
    THEN [track |-> track, events |-> <<>>, raised |-> "None"]
    ELSE
    LET note == get_play_head_note(track) IN
    IF ~fail_lookups_ok(note)
    THEN [track |-> track, events |-> <<>>, raised |-> "IndexError"]
    ELSE IF ~should_fail_to_play(note, cm)
    THEN [track |-> track, events |-> <<>>, raised |-> "None"]
    ELSE
    LET n1 == note_fail(note, cm)
        ev == Event(t, track.current_play_index, note, n1.play_result)
        t1 == increment_play_index(
                  [track EXCEPT !.notes[track.current_play_index + 1] = n1])
        rest == SweepTrack_Judging(t1, t, cm, auto)
    IN [rest EXCEPT !.events = <<ev>> \o @]

\* the auto-fail sweep of one interactive track: [track, events, raised]
RECURSIVE SweepTrack(_, _, _, _)
SweepTrack(track, t, cm, auto) ==
    IF ~HasPlayHead(track)
    THEN [track |-> track, events |-> <<>>, raised |-> "None"]
    ELSE
    LET note == get_play_head_note(track) IN
    IF ~fail_lookups_ok(note)
    THEN [track |-> track, events |-> <<>>, raised |-> "IndexError"]
    ELSE IF ~should_fail_to_play(note, cm)
    THEN [track |-> track, events |-> <<>>, raised |-> "None"]
    ELSE
    LET n1 == IF auto THEN note ELSE note_fail(note, cm)
        ev == Event(t, track.current_play_index, note,
                    IF auto THEN NoResult ELSE n1.play_result)
        t1 == increment_play_index(
                  [track EXCEPT !.notes[track.current_play_index + 1] = n1])
        rest == SweepTrack(t1, t, cm, auto)
    IN [rest EXCEPT !.events = <<ev>> \o @]

\* the sweep over the interactive tracks from position k of the list on:
\* [tracks, events, raised]
RECURSIVE SweepTracks(_, _, _, _, _)
SweepTracks(tracks, playable, k, cm, auto) ==
    IF k > Len(playable) THEN [tracks |-> tracks, events |-> <<>>, raised |-> "None"]
    ELSE LET t == playable[k]
             r == SweepTrack(tracks[t], t, cm, auto)
             tracks1 == [tracks EXCEPT ![t] = r.track]
         IN IF r.raised # "None"
            THEN [tracks |-> tracks1, events |-> r.events, raised |-> r.raised]
            ELSE LET rest == SweepTracks(tracks1, playable, k + 1, cm, auto)
                 IN [rest EXCEPT !.events = r.events \o @]

\* a variant of notes_to_process that takes every due note, the GENERAL notes
\* of the interactive tracks included
RECURSIVE NotesToProcess_All(_, _, _, _, _, _)
NotesToProcess_All(tracks, order, k, drained, playable, auto) ==
    IF k > Len(order) THEN <<>>
    ELSE LET t == order[k]
             due == [j \in 1..(drained[t] - tracks[t].current_index) |->
                        [track |-> t, index |-> tracks[t].current_index + j - 1]]
         IN due \o NotesToProcess_All(tracks, order, k + 1, drained, playable, auto)

\* the notes_to_process of on_tick, tracks of `order` from position k on: the
\* notes between each track's processing cursor and its position after the
\* drain, a GENERAL note of an interactive track only in auto-play
RECURSIVE NotesToProcess(_, _, _, _, _, _)
NotesToProcess(tracks, order, k, drained, playable, auto) ==
    IF k > Len(order) THEN <<>>
    ELSE LET t == order[k]
             due == [j \in 1..(drained[t] - tracks[t].current_index) |->
                        [track |-> t, index |-> tracks[t].current_index + j - 1]]
             Dispatched(n) ==
                 \/ ~is_general(tracks[t].notes[n.index + 1])
                 \/ t \notin SeqToSet(playable)
                 \/ auto
         IN SelectSeq(due, Dispatched)
                \o NotesToProcess(tracks, order, k + 1, drained, playable, auto)

\* GameSequencePlayer.on_tick
OnTick ==
    /\ raised = "None"
    /\ frame = "started"
    /\ frame' = "idle"
    /\ IF ~is_playing
       THEN /\ last' = Last("OnTick", 0, <<>>)
            /\ UNCHANGED <<game_tracks_dict, channel_per_track, tempo, beat,
                           tick_interval_millis, current_tick,
                           started_millis, elapsed_millis, played_millis, paused_millis,
                           is_playing, score, raised, report_count>>
       ELSE
       LET started1 == IF started_millis < 0
                       THEN IF played_millis < 0 THEN current_millis
                            ELSE current_millis - played_millis
                       ELSE started_millis
           played1 == IF played_millis < 0 THEN 0 ELSE played_millis
           started2 == IF paused_millis > 0
                       THEN started1 + (current_millis - paused_millis)
                       ELSE started1
           elapsed == current_millis - started2
           incremental_millis == elapsed - played1
           incremental_ticks == IF tick_interval_millis > 0
                                THEN TruncDiv(incremental_millis, tick_interval_millis)
                                ELSE 0
           tick2 == IF incremental_ticks > 0 THEN current_tick + incremental_ticks
                    ELSE current_tick
           played2 == IF incremental_ticks > 0
                      THEN played1 + tick_interval_millis * incremental_ticks
                      ELSE played1
           d == DrainTracks(TrackNotes(game_tracks_dict), game_tracks_list, 1,
                            [t \in DOMAIN game_tracks_dict |->
                                game_tracks_dict[t].current_index],
                            tick2, ticks_per_measure, tempo, tick_interval_millis)
           tracks1 == [t \in DOMAIN game_tracks_dict |->
                          [game_tracks_dict[t] EXCEPT !.current_index = d.indices[t]]]
           notes_to_process ==
               NotesToProcess(game_tracks_dict, game_tracks_list, 1, d.indices,
                              game_playable_tracks_list, is_auto_play)
           pr == ProcessNotes(game_tracks_dict, notes_to_process, 1,
                              Processing(channel_per_track, beat))
           sw == IF pr.raised # "None"
                 THEN [tracks |-> tracks1, events |-> <<>>, raised |-> pr.raised]
                 ELSE SweepTracks(tracks1, game_playable_tracks_list, 1, elapsed,
                                  is_auto_play)
       IN /\ started_millis' = started2
          /\ played_millis' = played2
          /\ paused_millis' = IF paused_millis > 0 THEN -1 ELSE paused_millis
          /\ elapsed_millis' = elapsed
          /\ current_tick' = tick2
          /\ tempo' = d.tempo
          /\ tick_interval_millis' = d.interval
          /\ game_tracks_dict' = sw.tracks
          /\ raised' = sw.raised
          /\ score' = ScoreAfter(score, sw.events, 1)
          /\ report_count' = CountAfter(report_count, sw.events, 1)
          /\ is_playing' = IF sw.raised = "None" /\ tick2 > total_ticks THEN FALSE
                           ELSE is_playing
          /\ channel_per_track' = pr.channels
          /\ beat' = pr.beat
          /\ last' = [Last("OnTick", elapsed, sw.events) EXCEPT
                          !.processed = notes_to_process, !.sounds = pr.sounds]
    /\ UNCHANGED <<Decoder, loop, ptfiles, ptfile, game_playable_tracks_list, Timeline, current_millis,
                   is_playable, is_auto_play, game_mode, ignore_play_keys,
                   input_game_mode, now>>

(***************************************************************************)
(* Chart Decoder: PTFile.parse on a buffer of bytes (src/ptfile.py).       *)
(* A buffer is a sequence of bytes 0..255, offsets are 0-based as in the   *)
(* source; every format is little-endian and packed ("<").                 *)
(***************************************************************************)
\* struct.unpack_from(format, buffer, offset) needs calcsize(format) bytes
CanUnpack(buffer, offset, size) == offset + size <= Len(buffer)

Slice(buffer, offset, size) == SubSeq(buffer, offset + 1, offset + size)

\* "B", "<H", "<I" (of the values below 2^31)
U8(buffer, offset)  == buffer[offset + 1]
U16(buffer, offset) == buffer[offset + 1] + 256 * buffer[offset + 2]
U32(buffer, offset) == U16(buffer, offset) + 65536 * U16(buffer, offset + 2)

RECURSIVE Pow2(_)
Pow2(n) == IF n = 0 THEN 1 ELSE 2 * Pow2(n - 1)

\* "<f": IEEE 754 binary32, (-1)^s * (2^23 + m) * 2^(e - 150); the value is
\* truncated to a whole number (the tempos of the buffers below are whole)
F32(buffer, offset) ==
    LET b0 == buffer[offset + 1]
        b1 == buffer[offset + 2]
        b2 == buffer[offset + 3]
        b3 == buffer[offset + 4]
        s == b3 \div 128
        e == (b3 % 128) * 2 + b2 \div 128
        m == (b2 % 128) * 65536 + b1 * 256 + b0
        mag == IF e = 0 THEN 0
               ELSE IF e >= 150 THEN (8388608 + m) * Pow2(e - 150)
               ELSE IF e < 127 THEN 0
               ELSE (8388608 + m) \div Pow2(150 - e)
    IN IF s = 1 THEN 0 - mag ELSE mag

\* name.partition(b"\0")[0]
RECURSIVE CString(_)
CString(bytes) ==
    IF bytes = <<>> \/ Head(bytes) = 0 THEN <<>>
    ELSE <<Head(bytes)>> \o CString(Tail(bytes))

PTFF == <<80, 84, 70, 70>>
EZTR == <<69, 90, 84, 82>>

HeaderSize == 24
SoundSize == 68
TrackHeaderSize == 80
size_of_note == 16

\* the params of one note record by command type; "TypeError" for a type
\* outside PTFileCommandType
NoteParams(command_type, params) ==
    CASE command_type = 1 ->
            [raised |-> "None",
             params |-> [sound_index |-> U16(params, 0), volume |-> U8(params, 2),
                         pan |-> U8(params, 3), attribute |-> U8(params, 4),
                         duration |-> U16(params, 5)]]
      [] command_type = 2 -> [raised |-> "None", params |-> [volume |-> U8(params, 0)]]
      [] command_type = 3 -> [raised |-> "None", params |-> [tempo |-> F32(params, 0)]]
      [] command_type = 4 -> [raised |-> "None", params |-> [beat |-> U16(params, 0)]]
      [] OTHER -> [raised |-> "TypeError", params |-> "None"]

\* the loop over the notes of one track
RECURSIVE ParseNotes(_, _, _, _)
ParseNotes(buffer, offset, number_of_notes, note_entries) ==
    IF number_of_notes = 0
    THEN [raised |-> "None", offset |-> offset, notes |-> note_entries]
    ELSE IF ~CanUnpack(buffer, offset, size_of_note)
    THEN [raised |-> "struct.error", offset |-> offset, notes |-> note_entries]
    ELSE LET position == U32(buffer, offset)
             command_type == U8(buffer, offset + 4)
             np == NoteParams(command_type, Slice(buffer, offset + 8, 8))
         IN IF np.raised # "None"
            THEN [raised |-> np.raised, offset |-> offset, notes |-> note_entries]
            ELSE ParseNotes(buffer, offset + size_of_note, number_of_notes - 1,
                     Append(note_entries,
                            [position |-> position, command_type |-> command_type,
                             params |-> np.params]))

\* the loop over the tracks; the assert on the magic runs only if asserts
\* are enabled
RECURSIVE ParseTracks(_, _, _, _, _)
ParseTracks(buffer, offset, number_of_tracks, track_entries, asserts) ==
    IF number_of_tracks = 0
    THEN [raised |-> "None", offset |-> offset, tracks |-> track_entries]
    ELSE IF ~CanUnpack(buffer, offset, TrackHeaderSize)
    THEN [raised |-> "struct.error", offset |-> offset, tracks |-> track_entries]
    ELSE IF asserts /\ Slice(buffer, offset, 4) # EZTR
    THEN [raised |-> "AssertionError", offset |-> offset, tracks |-> track_entries]
    ELSE LET track_name == CString(Slice(buffer, offset + 6, 64))
             ticks == U32(buffer, offset + 70)
             size_of_data == U32(buffer, offset + 74)
             ns == ParseNotes(buffer, offset + TrackHeaderSize,
                              size_of_data \div size_of_note, <<>>)
         IN IF ns.raised # "None"
            THEN [raised |-> ns.raised, offset |-> ns.offset, tracks |-> track_entries]
            ELSE ParseTracks(buffer, ns.offset, number_of_tracks - 1,
                     Append(track_entries,
                            [name |-> track_name, ticks |-> ticks, notes |-> ns.notes]),
                     asserts)

\* the loop over the sound entries
RECURSIVE ParseSounds(_, _, _, _)
ParseSounds(buffer, offset, number_of_sounds, sound_entries) ==
    IF number_of_sounds = 0
    THEN [raised |-> "None", offset |-> offset, sounds |-> sound_entries]
    ELSE IF ~CanUnpack(buffer, offset, SoundSize)
    THEN [raised |-> "struct.error", offset |-> offset, sounds |-> sound_entries]
    ELSE ParseSounds(buffer, offset + SoundSize, number_of_sounds - 1,
             Append(sound_entries,
                    [index |-> U16(buffer, offset), command |-> U16(buffer, offset + 2),
                     filename |-> CString(Slice(buffer, offset + 4, 64))]))

\* returned is <<>> or holds the one PTFile returned
NoPTFile == [raised |-> "None", returned |-> <<>>]

\* PTFile.parse from "unpacker = SequentialUnpacker(buffer)" on: the PTFile
\* it returns, or the exception it raises
Unpack(buffer, asserts) ==
    IF ~CanUnpack(buffer, 0, HeaderSize)
    THEN [NoPTFile EXCEPT !.raised = "struct.error"]
    ELSE IF asserts /\ Slice(buffer, 0, 4) # PTFF
    THEN [NoPTFile EXCEPT !.raised = "AssertionError"]
    ELSE LET header == [version_major |-> U8(buffer, 4),
                        version_minor |-> U8(buffer, 5),
                        ticks_per_measure |-> U16(buffer, 6),
                        master_bpm |-> F32(buffer, 8),
                        number_of_tracks |-> U16(buffer, 12),
                        total_ticks |-> U32(buffer, 14),
                        time_in_seconds |-> F32(buffer, 18),
                        number_of_sounds |-> U16(buffer, 22)]
             ss == ParseSounds(buffer, HeaderSize, U16(buffer, 22), <<>>)
         IN IF ss.raised # "None"
            THEN [NoPTFile EXCEPT !.raised = ss.raised]
            ELSE LET ts == ParseTracks(buffer, ss.offset, U16(buffer, 12), <<>>, asserts)
                 IN IF ts.raised # "None"
                    THEN [NoPTFile EXCEPT !.raised = ts.raised]
                    ELSE [NoPTFile EXCEPT !.returned =
                             <<[header |-> header, sounds |-> ss.sounds,
                                tracks |-> ts.tracks]>>]

(***************************************************************************)
(* Buffers given to PTFile.parse                                           *)
(***************************************************************************)
\* the sum of the bytes lo..hi of a buffer, by halves
RECURSIVE SumOfBytes(_, _, _)
SumOfBytes(buffer, lo, hi) ==
    IF lo > hi THEN 0
    ELSE IF lo = hi THEN buffer[lo]
    ELSE LET mid == (lo + hi) \div 2
         IN SumOfBytes(buffer, lo, mid) + SumOfBytes(buffer, mid + 1, hi)

\* hashlib.md5(file_buffer).hexdigest()[:7]: 28 bits of a digest of the
\* content.  MD5 is not computed here; this digest stands for it, and like
\* any function to 28 bits it gives some pairs of buffers the same value.
Md5Hex7(file_buffer) == SumOfBytes(file_buffer, 1, Len(file_buffer)) % 268435456

\* the bytes the gateway's "DJMax *.pt decrypt" task returns for a file; the
\* cipher of the service is not part of the program, the complement of every
\* byte stands for it (it is its own inverse)
Decrypted(file) == [i \in 1..Len(file) |-> 255 - file[i]]

\* a decrypted chart file: one sound (index 1), track "0" with a BPM note
\* (tempo 60.0) and a BEAT note, track "1" with a GENERAL and a VOLUME note
ChartBytes(duration, beats) ==
    LET Zeros(n) == [i \in 1..n |-> 0]
        Le16(x) == <<x % 256, x \div 256>>
        Le32(x) == Le16(x % 65536) \o Le16(x \div 65536)
        Padded(bytes, n) == bytes \o Zeros(n - Len(bytes))
        NoteBytes(position, command_type, params) ==
            Le32(position) \o <<command_type, 0, 0, 0>> \o Padded(params, 8)
        TrackBytes(name, ticks, notes) ==
            EZTR \o Zeros(2) \o Padded(name, 64) \o Le32(ticks) \o Le32(Len(notes))
                 \o Zeros(2) \o notes
        header == PTFF \o <<1, 0>> \o Le16(100) \o <<0, 0, 240, 66>> \o Le16(2)
                       \o Le32(4) \o Zeros(4) \o Le16(1)
        sound == Le16(1) \o Le16(0) \o Padded(<<97>>, 64)
        track0 == TrackBytes(<<48>>, 4,
                      NoteBytes(0, 3, <<0, 0, 112, 66>>) \o NoteBytes(0, 4, Le16(beats)))
        track1 == TrackBytes(<<49>>, 4,
                      NoteBytes(1, 1, Le16(1) \o <<127, 64, 0>> \o Le16(duration))
                      \o NoteBytes(2, 2, <<100>>))
    IN header \o sound \o track0 \o track1

Corrupt(buffer, offset, byte) == [buffer EXCEPT ![offset + 1] = byte]

ValidBuffer == ChartBytes(2, 4)
\* a second chart whose encrypted bytes have the digest of the first
TwinBuffer  == ChartBytes(4, 2)

\* decrypted buffers that are no chart file: a wrong header magic, a wrong
\* magic of the first or the second track, a command type 0 or 5 on the first
\* or the last note, and files cut short
BadMagicBuffers == {Corrupt(ValidBuffer, 0, 88)}
BadTrackBuffers == {Corrupt(ValidBuffer, o, 88) : o \in {92, 204}}
BadCommandBuffers == {Corrupt(ValidBuffer, o, c) : o \in {176, 304}, c \in {0, 5}}
CutBuffers == {SubSeq(ValidBuffer, 1, n) : n \in {0, 25, 26, 100, 300}}

DecryptedBuffers ==
    {ValidBuffer, TwinBuffer} \cup BadMagicBuffers \cup BadTrackBuffers
        \cup BadCommandBuffers \cup CutBuffers

\* encrypted files, and a decrypted chart whose first sound index is 2
EncryptedBuffers ==
    {Decrypted(b) : b \in {ValidBuffer, TwinBuffer} \cup BadMagicBuffers}
        \cup {Corrupt(ValidBuffer, 24, 2)}

Buffers == DecryptedBuffers \cup EncryptedBuffers

(***************************************************************************)
(* PTFile.parse and CachedPTFileDecryptor: one action per request to the   *)
(* gateway (UnpackMeClient), which answers or makes the request raise      *)
(***************************************************************************)
MaxParses == 2
MaxPolls == 2

\* unpacked is <<>> or holds the one buffer the structural part ran on; before
\* is <<>> or holds the decryptor, the token file and the cache as they were
\* when the call began, statuses the taskStatus of each poll answered, tokens
\* the Token header of each request (observation only)
NoCall ==
    [pc |-> "idle", file |-> <<>>, steps |-> <<>>, polls |-> 0, unpacked |-> <<>>,
     returned |-> <<>>, raised |-> "None", calls |-> 0, before |-> <<>>,
     statuses |-> <<>>, tokens |-> <<>>]

\* CachedPTFileDecryptor.__init__ with an empty unpack-cache directory
DecoderIdle ==
    /\ decryptor = [token |-> "None", client_token |-> "None",
                    command_ids_by_title |-> "None"]
    /\ token_file = "None"
    /\ decrypted_cache = [n \in {} |-> <<>>]
    /\ parse = NoCall
    /\ debug = TRUE

Game == <<ptfiles, ptfile, game_tracks_dict, game_playable_tracks_list, Timeline,
          channel_per_track, tempo,
          beat, tick_interval_millis, current_tick, current_millis, started_millis,
          elapsed_millis, played_millis, paused_millis, is_playable, is_playing,
          is_auto_play, game_mode, ignore_play_keys, input_game_mode, score, now, frame,
          raised, last, control_ops, report_count>>

is_encrypted_InHeader(buffer) == U16(buffer, 22) # 1

\* is_encrypted(buffer)
is_encrypted(buffer) == U16(buffer, 24) # 1

\* the structural part of parse runs on buffer and ends the call
Unpacked(call, buffer) ==
    LET r == Unpack(buffer, debug)
    IN [call EXCEPT !.pc = "idle", !.steps = Append(@, "unpack"), !.unpacked = <<buffer>>,
                    !.returned = r.returned, !.raised = r.raised]

\* an exception leaves parse
Raised(call, exception) == [call EXCEPT !.pc = "idle", !.raised = exception]

\* a request is sent; all but /auth carry the client's token in a header
Requested(call, request) ==
    [call EXCEPT !.steps = Append(@, request),
                 !.tokens = IF request \in {"decrypt_ptfile", "/auth"} THEN @
                            ELSE Append(@, decryptor.client_token)]

\* get_command_id_by_title asks for the commands only once per process
AfterToken(command_ids_by_title) ==
    IF command_ids_by_title = "None" THEN "commands" ELSE "create"

\* PTFile.parse(file) up to its first request to the gateway, or to its end
\* if it needs none
ParseCall(file) ==
    /\ parse.pc = "idle"
    /\ parse.calls < MaxParses
    /\ LET call == [NoCall EXCEPT !.file = file, !.calls = parse.calls + 1,
                                  !.steps = <<"is_encrypted">>,
                                  !.before = <<[decryptor |-> decryptor,
                                                token_file |-> token_file,
                                                decrypted_cache |-> decrypted_cache]>>]
           cached_filename == Md5Hex7(file)
           decrypting == Requested(call, "decrypt_ptfile")
       IN IF ~CanUnpack(file, 24, 2)
          THEN /\ parse' = Raised(call, "struct.error")
               /\ UNCHANGED <<decryptor, decrypted_cache>>
          ELSE IF ~is_encrypted(file)
          THEN /\ parse' = Unpacked(call, file)
               /\ UNCHANGED <<decryptor, decrypted_cache>>
          ELSE IF cached_filename \in DOMAIN decrypted_cache
          THEN /\ parse' = Unpacked(decrypting, decrypted_cache[cached_filename])
               /\ UNCHANGED <<decryptor, decrypted_cache>>
          ELSE IF decryptor.token = "None" /\ token_file = "None"
          THEN /\ parse' = [decrypting EXCEPT !.pc = "auth"]
               /\ UNCHANGED <<decryptor, decrypted_cache>>
          ELSE /\ parse' = [decrypting EXCEPT
                               !.pc = AfterToken(decryptor.command_ids_by_title)]
               /\ decryptor' = IF decryptor.token = "None"
                               THEN [decryptor EXCEPT !.token = token_file,
                                                      !.client_token = token_file]
                               ELSE decryptor
               /\ UNCHANGED decrypted_cache
    /\ UNCHANGED <<token_file, debug, Game, loop>>

\* UnpackMeClient.authenticate, then get_or_fetch_token writes the token file
\* and ensure_token_is_set sets the token
Authenticate(ok) ==
    /\ parse.pc = "auth"
    /\ IF ok
       THEN /\ decryptor' = [decryptor EXCEPT !.token = "token", !.client_token = "token"]
            /\ token_file' = "token"
            /\ parse' = [Requested(parse, "/auth") EXCEPT
                            !.pc = AfterToken(decryptor.command_ids_by_title)]
       ELSE /\ parse' = Raised(Requested(parse, "/auth"), "RequestException")
            /\ UNCHANGED <<decryptor, token_file>>
    /\ UNCHANGED <<decrypted_cache, debug, Game, loop>>

\* UnpackMeClient.get_available_commands in get_command_id_by_title
GetAvailableCommands(ok) ==
    /\ parse.pc = "commands"
    /\ IF ok
       THEN /\ decryptor' = [decryptor EXCEPT !.command_ids_by_title = "listed"]
            /\ parse' = [Requested(parse, "/command/available") EXCEPT !.pc = "create"]
       ELSE /\ parse' = Raised(Requested(parse, "/command/available"), "RequestException")
            /\ UNCHANGED decryptor
    /\ UNCHANGED <<token_file, decrypted_cache, debug, Game, loop>>

\* UnpackMeClient.create_task_from_command_id
CreateTask(ok) ==
    /\ parse.pc = "create"
    /\ parse' = IF ok THEN [Requested(parse, "/task/create") EXCEPT !.pc = "poll"]
                ELSE Raised(Requested(parse, "/task/create"), "RequestException")
    /\ UNCHANGED <<decryptor, token_file, decrypted_cache, debug, Game, loop>>

TaskStatuses == {"completed", "processing", "failed"}

\* a variant of the polling loop that leaves after the first poll answered,
\* whatever its status
GetTaskById_Eager(ok, task_status) ==
    /\ parse.pc = "poll"
    /\ parse' = IF ~ok THEN Raised(Requested(parse, "/task"), "RequestException")
                ELSE [Requested(parse, "/task") EXCEPT
                         !.pc = "download", !.polls = @ + 1,
                         !.statuses = Append(@, task_status)]
    /\ UNCHANGED <<decryptor, token_file, decrypted_cache, debug, Game, loop>>

\* a variant of the polling loop that gives up on the status "failed"
GetTaskById_GivesUp(ok, task_status) ==
    /\ parse.pc = "poll"
    /\ parse' = IF ~ok THEN Raised(Requested(parse, "/task"), "RequestException")
                ELSE IF task_status = "completed"
                THEN [Requested(parse, "/task") EXCEPT
                         !.pc = "download", !.polls = @ + 1,
                         !.statuses = Append(@, task_status)]
                ELSE IF task_status = "failed"
                THEN [Raised(Requested(parse, "/task"), "DecryptionFailed") EXCEPT
                         !.polls = @ + 1, !.statuses = Append(@, task_status)]
                ELSE [Requested(parse, "/task") EXCEPT
                         !.polls = @ + 1, !.statuses = Append(@, task_status)]
    /\ (ok /\ task_status = "processing") => parse.polls < MaxPolls
    /\ UNCHANGED <<decryptor, token_file, decrypted_cache, debug, Game, loop>>

\* UnpackMeClient.get_task_by_id in the polling loop; any status other than
\* "completed" sleeps and polls again
GetTaskById(ok, task_status) ==
    /\ parse.pc = "poll"
    /\ parse' = IF ~ok THEN Raised(Requested(parse, "/task"), "RequestException")
                ELSE IF task_status = "completed"
                THEN [Requested(parse, "/task") EXCEPT
                         !.pc = "download", !.polls = @ + 1,
                         !.statuses = Append(@, task_status)]
                ELSE [Requested(parse, "/task") EXCEPT
                         !.polls = @ + 1, !.statuses = Append(@, task_status)]
    /\ (ok /\ task_status # "completed") => parse.polls < MaxPolls
    /\ UNCHANGED <<decryptor, token_file, decrypted_cache, debug, Game, loop>>

DownloadTask_CacheAnyway(ok) ==
    /\ parse.pc = "download"
    /\ LET content == IF ok THEN Decrypted(parse.file) ELSE <<>>
           cached_filename == Md5Hex7(parse.file)
       IN /\ decrypted_cache' =
                [n \in DOMAIN decrypted_cache \cup {cached_filename} |->
                    IF n = cached_filename THEN content ELSE decrypted_cache[n]]
          /\ parse' = IF ok THEN Unpacked(Requested(parse, "/task/download"), content)
                      ELSE Raised(Requested(parse, "/task/download"), "RequestException")
    /\ UNCHANGED <<decryptor, token_file, debug, Game, loop>>

\* UnpackMeClient.download_task, then decrypt_ptfile writes the cache file and
\* parse goes on with the bytes returned
DownloadTask(ok) ==
    /\ parse.pc = "download"
    /\ IF ok
       THEN LET decrypted_file_content == Decrypted(parse.file)
                cached_filename == Md5Hex7(parse.file)
            IN /\ decrypted_cache' =
                     [n \in DOMAIN decrypted_cache \cup {cached_filename} |->
                         IF n = cached_filename THEN decrypted_file_content
                         ELSE decrypted_cache[n]]
               /\ parse' = Unpacked(Requested(parse, "/task/download"),
                                    decrypted_file_content)
       ELSE /\ parse' = Raised(Requested(parse, "/task/download"), "RequestException")
            /\ UNCHANGED decrypted_cache
    /\ UNCHANGED <<decryptor, token_file, debug, Game, loop>>

(***************************************************************************)
(* Game.main_async: the coroutine main and its three tasks on the asyncio  *)
(* event loop, and the executor thread of the buffer flip.                 *)
(* loop = [pc, ready, running, done, waiting, executor, log]: main's       *)
(* position, the FIFO of callbacks that are ready, the callback that runs, *)
(* the tasks of the frame that are done, the future main awaits, the state *)
(* of the executor thread, and what has started and ended in the frame so  *)
(* far (observation only).                                                 *)
(***************************************************************************)
Tasks == {"screen_drawed", "sequence_player_ticked", "events_handled"}

\* before `while not self._should_stop`: main runs, nothing is scheduled
LoopIdle ==
    [pc |-> "sample", ready |-> <<>>, running |-> "main", done |-> {},
     waiting |-> "None", executor |-> "idle", log |-> <<>>]

Logged(l, entry) == [l EXCEPT !.log = Append(@, entry)]

\* main from its position until it next has to wait: `await` of a task that is
\* done goes on at once, `await` of a pending one and run_in_executor suspend
RECURSIVE MainRuns(_)
MainRuns(l) ==
    CASE l.pc = "await screen_drawed" ->
            IF "screen_drawed" \in l.done
            THEN MainRuns([l EXCEPT !.pc = "run_in_executor"])
            ELSE [l EXCEPT !.running = "None", !.waiting = "screen_drawed"]
      [] l.pc = "run_in_executor" ->
            [Logged(l, "on_tick_end starts") EXCEPT
                !.pc = "await sequence_player_ticked", !.running = "None",
                !.waiting = "executor", !.executor = "running"]
      [] l.pc = "await sequence_player_ticked" ->
            IF "sequence_player_ticked" \in l.done
            THEN MainRuns([l EXCEPT !.pc = "await events_handled"])
            ELSE [l EXCEPT !.running = "None", !.waiting = "sequence_player_ticked"]
      [] l.pc = "await events_handled" ->
            IF "events_handled" \in l.done
            THEN [l EXCEPT !.pc = "sample", !.running = "main", !.waiting = "None"]
            ELSE [l EXCEPT !.running = "None", !.waiting = "events_handled"]
      [] OTHER -> l

LoopFrame == UNCHANGED <<Decoder, Game, channel_per_track>>

\* a variant of main that starts the buffer flip before it awaits the drawing
MainCreatesTasks_FlipFirst ==
    /\ loop.running = "main" /\ loop.pc = "sample"
    /\ frame = "started"
    /\ loop' = MainRuns([loop EXCEPT
                   !.pc = "run_in_executor", !.done = {}, !.executor = "idle",
                   !.ready = @ \o <<"screen_drawed", "sequence_player_ticked",
                                    "events_handled">>,
                   !.log = <<"on_tick_start">>])
    /\ LoopFrame

\* main after on_tick_start: the three create_task calls, then `await
\* screen_drawed`
MainCreatesTasks ==
    /\ loop.running = "main" /\ loop.pc = "sample"
    /\ frame = "started"
    /\ loop' = MainRuns([loop EXCEPT
                   !.pc = "await screen_drawed", !.done = {}, !.executor = "idle",
                   !.ready = @ \o <<"screen_drawed", "sequence_player_ticked",
                                    "events_handled">>,
                   !.log = <<"on_tick_start">>])
    /\ LoopFrame

\* the loop takes the first ready callback when none runs: a task starts
TaskStarts ==
    /\ loop.running = "None"
    /\ loop.ready # <<>> /\ Head(loop.ready) \in Tasks
    /\ loop' = [Logged(loop, Head(loop.ready) \o " starts") EXCEPT
                   !.running = Head(loop.ready), !.ready = Tail(loop.ready)]
    /\ LoopFrame

\* the coroutine of a task returns (none of the three awaits anything): the
\* task is done, and main, if it awaits the task, is made ready
TaskEnds ==
    /\ loop.running \in Tasks
    /\ loop.running = "sequence_player_ticked" => frame = "idle"
    /\ loop' = [Logged(loop, loop.running \o " ends") EXCEPT
                   !.running = "None", !.done = @ \cup {loop.running},
                   !.ready = IF loop.waiting = loop.running THEN Append(@, "main") ELSE @,
                   !.waiting = IF loop.waiting = loop.running THEN "None" ELSE @]
    /\ LoopFrame

\* the loop takes main's wake-up when none runs: main goes on to its next wait
MainWakes ==
    /\ loop.running = "None"
    /\ loop.ready # <<>> /\ Head(loop.ready) = "main"
    /\ loop' = MainRuns([loop EXCEPT !.running = "main", !.ready = Tail(loop.ready)])
    /\ LoopFrame

\* the executor thread returns from on_tick_end at any moment of its own
ExecutorEnds ==
    /\ loop.executor = "running"
    /\ loop' = [Logged(loop, "on_tick_end ends") EXCEPT
                   !.executor = "done",
                   !.ready = IF loop.waiting = "executor" THEN Append(@, "main") ELSE @,
                   !.waiting = IF loop.waiting = "executor" THEN "None" ELSE @]
    /\ LoopFrame

\* what main, a running task's coroutine, may call
InMain == loop.running = "main" /\ loop.pc = "sample"
InTask(task) == loop.running = task

(***************************************************************************)
(* Specifications                                                          *)
(***************************************************************************)
\* after Game.__init__: no chart, mode FOUR
Constructed ==
    /\ ptfile = "None"
    /\ game_tracks_dict = [t \in {} |-> GameTrack(<<>>)]
    /\ game_playable_tracks_list = <<>>
    /\ tempos_per_tick = <<>>
    /\ played_millis_per_tick = <<>>
    /\ tick_interval_millis_per_tick = <<>>
    /\ track_has_any_overlap = [t \in {} |-> FALSE]
    /\ number_of_channels_per_track = [t \in {} |-> 0]
    /\ channel_per_track = [t \in {} |-> GameTrackChannel(<<>>)]
    /\ loop = LoopIdle
    /\ tempo = 0
    /\ beat = 0
    /\ tick_interval_millis = 0
    /\ current_tick = 0
    /\ current_millis = -1
    /\ started_millis = -1
    /\ elapsed_millis = -1
    /\ played_millis = -1
    /\ paused_millis = -1
    /\ is_playable = FALSE
    /\ is_playing = FALSE
    /\ is_auto_play = FALSE
    /\ game_mode = 4
    /\ ignore_play_keys = FALSE
    /\ input_game_mode = 4
    /\ score = ZeroScore
    /\ now = ClockStart
    /\ frame = "idle"
    /\ raised = "None"
    /\ last = Last("Init", 0, <<>>)
    /\ control_ops = 0
    /\ report_count = [t \in {} |-> <<>>]

Init == ptfiles = NamedCharts /\ DecoderIdle /\ Constructed

\* the frame spacings, the seek steps and the game modes offered as inputs
FrameDeltas == {3 * unit_judge_millis + 1}
SeekOffsets == {-SeekTicks, SeekTicks}
ModeInputs == {4, 5}

\* events follow the frame's on_tick, as in Game.main_async
AtEvents == frame = "idle"

\* the key of a button is up / is held down (one physical key per button:
\* presses and releases alternate)
KeyIsUp(t)   == t \in DOMAIN game_tracks_dict /\ ~game_tracks_dict[t].is_playing
KeyIsDown(t) == t \in DOMAIN game_tracks_dict /\ game_tracks_dict[t].is_playing

\* a playback-control operation, within the budget of the behaviour
Control == AtEvents /\ control_ops < MaxControlOps /\ control_ops' = control_ops + 1
\* a key event or a frame step
Play == UNCHANGED control_ops

Next ==
    \/ Control /\ \E c \in ChartNames \ {"judge"} : OpenPtfile(c)
    \/ Control /\ StartPlay
    \/ Control /\ StopPlay
    \/ Control /\ \E m \in ModeInputs : SetGameMode(m)
    \/ Play /\ AtEvents /\ \E t \in TrackIndices : KeyIsUp(t) /\ KeyDown(t)
    \/ Play /\ AtEvents /\ \E t \in TrackIndices : KeyIsDown(t) /\ KeyUp(t)
    \/ Play /\ \E d \in FrameDeltas : OnTickStart(d)
    \/ Play /\ OnTick

Spec == Init /\ [][Next]_vars

\* the judgment runs: the chart "judge" is loaded and started; the first frame
\* starts the clock, the second comes any number of milliseconds later, the
\* later ones at the frame spacings
InitJudge ==
    /\ ptfiles = NamedCharts /\ DecoderIdle
    /\ ptfile = "judge"
    /\ game_tracks_dict =
          [t \in EffectiveTracks("judge") |-> GameTrack(ChartJudge.tracks[t])]
    /\ game_playable_tracks_list = PlayableList(game_tracks_dict, 4)
    /\ tempos_per_tick = BuildTimeline("judge").tempos
    /\ played_millis_per_tick = BuildTimeline("judge").played
    /\ tick_interval_millis_per_tick = BuildTimeline("judge").intervals
    /\ track_has_any_overlap = [t \in EffectiveTracks("judge") |-> FALSE]
    /\ number_of_channels_per_track =
          NumberOfChannels("judge", [t \in EffectiveTracks("judge") |-> FALSE])
    /\ channel_per_track = ChannelPerTrack(number_of_channels_per_track)
    /\ loop = LoopIdle
    /\ tempo = ChartJudge.master_bpm
    /\ beat = DefaultBeat
    /\ tick_interval_millis = TickInterval(ChartJudge.ticks_per_measure, ChartJudge.master_bpm)
    /\ current_tick = 0
    /\ current_millis = -1
    /\ started_millis = -1
    /\ elapsed_millis = -1
    /\ played_millis = -1
    /\ paused_millis = -1
    /\ is_playable = TRUE
    /\ is_playing = TRUE
    /\ is_auto_play = FALSE
    /\ game_mode = 4
    /\ ignore_play_keys = FALSE
    /\ input_game_mode = 4
    /\ score = ZeroScore
    /\ now = ClockStart
    /\ frame = "idle"
    /\ raised = "None"
    /\ last = Last("StartPlay", 0, <<>>)
    /\ control_ops = 0
    /\ report_count = ZeroReports(game_tracks_dict)

FirstFrame  == started_millis < 0
SecondFrame == started_millis >= 0 /\ elapsed_millis = 0

NextJudge ==
    \/ Play /\ FirstFrame /\ \E d \in FrameDeltas : OnTickStart(d)
    \/ Play /\ SecondFrame /\ \E d \in 1..MaxJump : OnTickStart(d)
    \/ Play /\ ~FirstFrame /\ ~SecondFrame /\ \E d \in FrameDeltas : OnTickStart(d)
    \/ Play /\ OnTick
    \/ Play /\ AtEvents /\ KeyIsUp(3) /\ KeyDown(3)
    \/ Play /\ AtEvents /\ KeyIsDown(3) /\ KeyUp(3)

SpecJudge == InitJudge /\ [][NextJudge]_vars

\* the state after Game.__init__, set_game_mode(mode) and open_ptfile(c), but
\* for the chart files, the playing flag, auto-play and the observation of
\* the last operation
LoadedIn(c, mode) ==
    /\ ptfile = c
    /\ game_tracks_dict = [t \in EffectiveTracks(c) |-> GameTrack(Chart(c).tracks[t])]
    /\ game_playable_tracks_list = PlayableList(game_tracks_dict, mode)
    /\ tempos_per_tick = BuildTimeline(c).tempos
    /\ played_millis_per_tick = BuildTimeline(c).played
    /\ tick_interval_millis_per_tick = BuildTimeline(c).intervals
    /\ track_has_any_overlap =
          [t \in EffectiveTracks(c) |-> DetectOverlap(c, played_millis_per_tick).st[t].flagged]
    /\ number_of_channels_per_track = NumberOfChannels(c, track_has_any_overlap)
    /\ channel_per_track = ChannelPerTrack(number_of_channels_per_track)
    /\ loop = LoopIdle
    /\ tempo = Chart(c).master_bpm
    /\ beat = DefaultBeat
    /\ tick_interval_millis = TickInterval(Chart(c).ticks_per_measure, Chart(c).master_bpm)
    /\ current_tick = 0
    /\ current_millis = -1
    /\ started_millis = -1
    /\ elapsed_millis = -1
    /\ played_millis = -1
    /\ paused_millis = -1
    /\ is_playable = TRUE
    /\ game_mode = mode
    /\ input_game_mode = mode
    /\ score = ZeroScore
    /\ now = ClockStart
    /\ frame = "idle"
    /\ raised = "None"
    /\ control_ops = 0
    /\ report_count = ZeroReports(game_tracks_dict)

Loaded(c) == LoadedIn(c, 4)

\* the sessions: the chart "lead" is loaded and started in mode FIVE; playback
\* is started, stopped, paused, resumed and sought, the mode changed and a
\* chart loaded while frames pass and keys are pressed
InitSession ==
    /\ ptfiles = NamedCharts /\ DecoderIdle
    /\ LoadedIn("lead", 5)
    /\ is_playing = TRUE
    /\ is_auto_play = FALSE
    /\ ignore_play_keys = FALSE
    /\ last = Last("StartPlay", 0, <<>>)

\* playback-control operations in one session
MaxSessionOps == 2

SessionControl ==
    AtEvents /\ control_ops < MaxSessionOps /\ control_ops' = control_ops + 1

NextSession ==
    \/ SessionControl /\ StartPlay
    \/ SessionControl /\ StopPlay
    \/ SessionControl /\ is_playing /\ PausePlay
    \/ SessionControl /\ ~is_playing /\ ResumePlay
    \/ SessionControl /\ \E d \in SeekOffsets : OffsetCurrentTick(d)
    \/ SessionControl /\ \E m \in ModeInputs : SetGameMode(m)
    \/ SessionControl /\ OpenPtfile("slow")
    \/ Play /\ AtEvents /\ is_playing /\ \E t \in TrackIndices : KeyIsUp(t) /\ KeyDown(t)
    \/ Play /\ AtEvents /\ is_playing /\ \E t \in TrackIndices : KeyIsDown(t) /\ KeyUp(t)
    \/ Play /\ is_playing /\ \E d \in FrameDeltas : OnTickStart(d)
    \/ Play /\ OnTick

SpecSession == InitSession /\ [][NextSession]_vars

\* the same session with one playback-control operation, and one resume after
\* it if it paused or stopped playback
PlaybackControl == AtEvents /\ control_ops = 0 /\ control_ops' = control_ops + 1

NextPlayback ==
    \/ PlaybackControl /\ StartPlay
    \/ PlaybackControl /\ StopPlay
    \/ PlaybackControl /\ is_playing /\ PausePlay
    \/ AtEvents /\ control_ops = 1 /\ control_ops' = control_ops + 1
          /\ ~is_playing /\ ResumePlay
    \/ PlaybackControl /\ \E d \in SeekOffsets : OffsetCurrentTick(d)
    \/ PlaybackControl /\ \E m \in ModeInputs : SetGameMode(m)
    \/ PlaybackControl /\ OpenPtfile("slow")
    \/ Play /\ AtEvents /\ is_playing /\ \E t \in TrackIndices : KeyIsUp(t) /\ KeyDown(t)
    \/ Play /\ AtEvents /\ is_playing /\ \E t \in TrackIndices : KeyIsDown(t) /\ KeyUp(t)
    \/ Play /\ is_playing /\ \E d \in FrameDeltas : OnTickStart(d)
    \/ Play /\ OnTick

SpecPlayback == InitSession /\ [][NextPlayback]_vars

\* a session that is paused, stopped or moved once and may be resumed, with
\* frames and the keys of button 1 going on whether it plays or not
NextIdle ==
    \/ PlaybackControl /\ is_playing /\ PausePlay
    \/ PlaybackControl /\ StopPlay
    \/ PlaybackControl /\ \E d \in SeekOffsets : OffsetCurrentTick(d)
    \/ AtEvents /\ control_ops = 1 /\ control_ops' = control_ops + 1
          /\ ~is_playing /\ ResumePlay
    \/ Play /\ AtEvents /\ KeyIsUp(3) /\ KeyDown(3)
    \/ Play /\ AtEvents /\ KeyIsDown(3) /\ KeyUp(3)
    \/ Play /\ \E d \in FrameDeltas : OnTickStart(d)
    \/ Play /\ OnTick

SpecIdle == InitSession /\ [][NextIdle]_vars

\* the aggregator runs: any sequence of up to MaxResults graded PlayResults is
\* fed to on_play_result, with resets between; last.events is the sequence
\* fed since the last reset
MaxResults == 6

OnPlayResult(rt) ==
    /\ raised = "None"
    /\ Len(last.events) < MaxResults
    /\ LET play_result == GameNotePlayResult(rt, 0, "None")
       IN /\ score' = on_play_result(score, play_result)
          /\ last' = Last("on_play_result", 0,
                          Append(last.events, Event(0, Len(last.events), NoResult,
                                                    play_result)))
    /\ UNCHANGED <<Decoder, loop, channel_per_track, ptfiles, ptfile, game_tracks_dict, game_playable_tracks_list, Timeline,
                   tempo, beat, tick_interval_millis, current_tick, current_millis,
                   started_millis, elapsed_millis, played_millis, paused_millis,
                   is_playable, is_playing, is_auto_play, game_mode, ignore_play_keys,
                   input_game_mode, Env, raised, control_ops, report_count>>

\* GamePatternPlayer.reset_play_stats
ResetPlayStats ==
    /\ raised = "None"
    /\ last.events # <<>>
    /\ score' = ZeroScore
    /\ last' = Last("reset_play_stats", 0, <<>>)
    /\ UNCHANGED <<Decoder, loop, channel_per_track, ptfiles, ptfile, game_tracks_dict, game_playable_tracks_list, Timeline,
                   tempo, beat, tick_interval_millis, current_tick, current_millis,
                   started_millis, elapsed_millis, played_millis, paused_millis,
                   is_playable, is_playing, is_auto_play, game_mode, ignore_play_keys,
                   input_game_mode, Env, raised, control_ops, report_count>>

NextScore ==
    \/ \E rt \in Grades : OnPlayResult(rt)
    \/ ResetPlayStats

SpecScore == Init /\ [][NextScore]_vars

\* the auto-play runs: a chart is loaded and started; auto-play is toggled and
\* the game mode changed while frames pass and keys are pressed
InitAuto ==
    /\ ptfiles = NamedCharts /\ DecoderIdle
    /\ \E c \in {"judge", "lead"} : Loaded(c)
    /\ is_playing = TRUE
    /\ is_auto_play = FALSE
    /\ ignore_play_keys = FALSE
    /\ last = Last("StartPlay", 0, <<>>)

NextAuto ==
    \/ Control /\ ToggleAutoPlay
    \/ Control /\ \E m \in ModeInputs : SetGameMode(m)
    \/ Play /\ AtEvents /\ \E t \in TrackIndices : KeyIsUp(t) /\ KeyDown(t)
    \/ Play /\ AtEvents /\ \E t \in TrackIndices : KeyIsDown(t) /\ KeyUp(t)
    \/ Play /\ \E d \in FrameDeltas : OnTickStart(d)
    \/ Play /\ OnTick

SpecAuto == InitAuto /\ [][NextAuto]_vars

\* the pause runs: the chart "judge" is loaded and started; playback is paused
\* and resumed while frames pass and button 1 is pressed. The events of a
\* frame are handled at `at`: "started" is Game.on_tick (clock sample, events,
\* sequence tick), "idle" is Game.main_async (clock sample, sequence tick,
\* events)
InitPause ==
    /\ ptfiles = NamedCharts /\ DecoderIdle
    /\ Loaded("judge")
    /\ is_playing = TRUE
    /\ is_auto_play = FALSE
    /\ ignore_play_keys = FALSE
    /\ last = Last("StartPlay", 0, <<>>)

PauseControl(at) ==
    frame = at /\ control_ops < MaxSessionOps /\ control_ops' = control_ops + 1

NextPause(at) ==
    \/ PauseControl(at) /\ is_playing /\ PausePlay
    \/ PauseControl(at) /\ ~is_playing /\ ResumePlay
    \/ Play /\ frame = at /\ KeyIsUp(3) /\ KeyDown(3)
    \/ Play /\ frame = at /\ KeyIsDown(3) /\ KeyUp(3)
    \/ Play /\ \E d \in FrameDeltas : OnTickStart(d)
    \/ Play /\ OnTick

NextMain == NextPause("started")
NextAsync == NextPause("idle")

SpecMain == InitPause /\ [][NextMain]_vars
SpecAsync == InitPause /\ [][NextAsync]_vars

\* Game.main_async on the event loop: main samples the clock and creates the
\* tasks, the loop runs what is ready, the sequence tick is the body of one
\* task and the events (pause, resume, the keys of button 1) are handled in
\* the body of another
NextLoop ==
    \/ Play /\ InMain /\ \E d \in FrameDeltas : OnTickStart(d)
    \/ Play /\ MainCreatesTasks
    \/ Play /\ TaskStarts
    \/ Play /\ TaskEnds
    \/ Play /\ MainWakes
    \/ Play /\ ExecutorEnds
    \/ Play /\ InTask("sequence_player_ticked") /\ OnTick
    \/ InTask("events_handled") /\ control_ops < MaxSessionOps
          /\ control_ops' = control_ops + 1 /\ is_playing /\ PausePlay
    \/ InTask("events_handled") /\ control_ops < MaxSessionOps
          /\ control_ops' = control_ops + 1 /\ ~is_playing /\ ResumePlay
    \/ Play /\ InTask("events_handled") /\ KeyIsUp(3) /\ KeyDown(3)
    \/ Play /\ InTask("events_handled") /\ KeyIsDown(3) /\ KeyUp(3)

SpecLoop == InitPause /\ [][NextLoop]_vars

\* the timeline runs: one of the generated charts is the file "gen"; it is
\* loaded, playback is moved to any of its ticks, resumed, and frames pass
InitTimeline ==
    /\ DecoderIdle
    /\ ptfiles \in {[name \in {"gen"} |-> ch] : ch \in GenCharts}
    /\ Constructed

NextTimeline ==
    \/ Play /\ AtEvents /\ ptfile = "None" /\ OpenPtfile("gen")
    \/ Play /\ AtEvents /\ last.op = "OpenPtfile"
          /\ \E tick \in 0..(total_ticks - 1) : SetCurrentTick(tick)
    \/ Play /\ AtEvents /\ ptfile # "None" /\ ~is_playing /\ started_millis < 0
          /\ ResumePlay
    \/ Play /\ is_playing /\ \E d \in FrameDeltas : OnTickStart(d)
    \/ Play /\ OnTick

SpecTimeline == InitTimeline /\ [][NextTimeline]_vars

\* the live runs: one of the generated charts is loaded and started with
\* start_play, and frames of one of the spacings below pass with no pause,
\* seek or stop
LiveDeltas == {10, 20, 50}

NextLive ==
    \/ Play /\ AtEvents /\ ptfile = "None" /\ OpenPtfile("gen")
    \/ Play /\ AtEvents /\ last.op = "OpenPtfile" /\ StartPlay
    \/ Play /\ is_playing /\ \E d \in LiveDeltas : OnTickStart(d)
    \/ Play /\ OnTick

\* the generated charts with one fixed track of GENERAL notes: every BPM track
LiveCharts ==
    {ch \in GenCharts :
        ch.tracks[3] = <<Sounding(General(0, 2), 20), Sounding(General(1, 2), 20),
                         General(2, 2)>>}

InitLive ==
    /\ DecoderIdle
    /\ ptfiles \in {[name \in {"gen"} |-> ch] : ch \in LiveCharts}
    /\ Constructed

SpecLive == InitLive /\ [][NextLive]_vars

\* the runs to the end of the chart: one of the generated charts is loaded;
\* playback is started, or moved to any tick and resumed, or resumed from the
\* stopped state; it may be paused once and resumed; frames pass while it plays
SampleFrame == Play /\ is_playing /\ \E d \in FrameDeltas : OnTickStart(d)
TickFrame   == Play /\ OnTick

NextFinish ==
    \/ Play /\ AtEvents /\ ptfile = "None" /\ OpenPtfile("gen")
    \/ Play /\ AtEvents /\ last.op = "OpenPtfile" /\ StartPlay
    \/ Play /\ AtEvents /\ last.op = "OpenPtfile"
          /\ \E tick \in 0..(total_ticks - 1) : SetCurrentTick(tick)
    \/ Control /\ is_playing /\ control_ops = 0 /\ PausePlay
    \/ Play /\ AtEvents /\ ptfile # "None" /\ ~is_playing
          /\ (started_millis < 0 \/ paused_millis > 0) /\ ResumePlay
    \/ SampleFrame
    \/ TickFrame

\* the wall clock keeps advancing: a frame that can be sampled is sampled, and
\* the frame that was sampled is ticked (the frame is "started" exactly while
\* TickFrame is enabled, and only TickFrame ends it)
SpecFinish ==
    InitLive /\ [][NextFinish]_vars /\ WF_vars(SampleFrame) /\ []<>(frame = "idle")

\* calls of PTFile.parse on the buffers, with asserts enabled or not and with
\* or without a token file left by an earlier process
InitParse ==
    /\ ptfiles = NamedCharts
    /\ Constructed
    /\ decryptor = [token |-> "None", client_token |-> "None",
                    command_ids_by_title |-> "None"]
    /\ token_file \in {"None", "token"}
    /\ decrypted_cache = [n \in {} |-> <<>>]
    /\ parse = NoCall
    /\ debug \in BOOLEAN

NextParse ==
    \/ \E file \in Buffers : ParseCall(file)
    \/ \E ok \in BOOLEAN : Authenticate(ok)
    \/ \E ok \in BOOLEAN : GetAvailableCommands(ok)
    \/ \E ok \in BOOLEAN : CreateTask(ok)
    \/ \E ok \in BOOLEAN, task_status \in TaskStatuses : GetTaskById(ok, task_status)
    \/ \E ok \in BOOLEAN : DownloadTask(ok)

SpecParse == InitParse /\ [][NextParse]_vars

(***************************************************************************)
(* Properties of the judgment engine                                       *)
(***************************************************************************)
\* the last operation was a key-down / key-up / frame tick that called the
\* head note of a track
KeyDownActed == last.op = "KeyDown" /\ last.events # <<>>
KeyUpActed   == last.op = "KeyUp" /\ last.events # <<>>
Ticked       == last.op = "OnTick"

\* the call of the last key event, the note as it is after the call, the
\* cursor of its track after the call
ActedEvent  == last.events[1]
ActedNote   == game_tracks_dict[ActedEvent.track].notes[ActedEvent.index + 1]
ActedCursor == game_tracks_dict[ActedEvent.track].current_play_index

\* the note of an event as it is now
NoteNow(e) == game_tracks_dict[e.track].notes[e.index + 1]

\* positionMillis - currentMillis and endMillis - currentMillis of the call
StartDiff == get_position_millis(ActedEvent.pre) - last.cm
EndDiff   == get_end_position_millis(ActedEvent.pre) - last.cm

InteractiveTracks == SeqToSet(game_playable_tracks_list)

\* C1: a key-down on a head note at diff = positionMillis - currentMillis is
\* graded by |diff| alone: under 42 MAX100, from 42 to under 84 MAX90, from
\* 84 to under 126 MAX1, for every diff strictly between -126 and 126.
C1_GradeWindows ==
    KeyDownActed /\ Abs(StartDiff) < 126 =>
        ActedNote.result_type =
            IF Abs(StartDiff) < 42 THEN "MAX100"
            ELSE IF Abs(StartDiff) < 84 THEN "MAX90"
            ELSE "MAX1"

\* a press 125 ms late is graded MAX1
C1_Witness ==
    KeyDownActed /\ StartDiff = -125 /\ ActedNote.result_type = "MAX1"

\* C2: a key-down whose head note starts 126 ms or more in the future is
\* ignored: the note stays NotStarted, the judgment cursor does not move and
\* no PlayResult is reported.
C2_EarlyPressIgnored ==
    KeyDownActed /\ StartDiff >= 126 =>
        /\ ActedNote = ActedEvent.pre
        /\ ActedCursor = ActedEvent.index
        /\ ~ActedEvent.reported

\* C3: no input raises, and every note that an operation resolves (to Played
\* or Failed) is reported with a PlayResult graded MAX100, MAX90, MAX1 or
\* BREAK; no note is consumed with an ungraded result.
C3_ResolvedIsGraded ==
    /\ raised = "None"
    /\ \A k \in 1..Len(last.events) :
          LET e == last.events[k] IN
          NoteState(NoteNow(e)) \in {"Played", "Failed"}
              /\ NoteState(e.pre) \notin {"Played", "Failed"} =>
              /\ e.reported
              /\ e.ret.result_type \in Grades

\* C4: the judgment cursor of every interactive track points at a GENERAL
\* note or past the end of the track, in every state (right after a load, a
\* start, a stop included), and no PlayResult is reported for a VOLUME, BPM
\* or BEAT note.
C4_CursorOnGeneral ==
    /\ \A t \in InteractiveTracks :
          HasPlayHead(game_tracks_dict[t]) =>
              is_general(get_play_head_note(game_tracks_dict[t]))
    /\ \A k \in 1..Len(last.events) :
          last.events[k].reported => is_general(last.events[k].pre)

\* C5: a key-down inside the grade windows on a NotStarted short note
\* resolves it to Played, advances the judgment cursor and reports
\* PlayResult(grade, currentMillis - positionMillis): 50 ms late gives
\* (MAX90, 50), on time gives (MAX100, 0); on a long note it moves the note
\* to Playing, records the start grade, reports nothing and leaves the
\* cursor on the note.
C5_SuccessfulKeyDown ==
    KeyDownActed /\ Abs(StartDiff) < 126 /\ NoteState(ActedEvent.pre) = "NotStarted" =>
        IF is_short(ActedEvent.pre)
        THEN /\ NoteState(ActedNote) = "Played"
             /\ ActedCursor > ActedEvent.index
             /\ ActedEvent.reported
             /\ ActedEvent.ret.result_type = ActedNote.result_type
             /\ ActedEvent.ret.result_type \in {"MAX100", "MAX90", "MAX1"}
             /\ ActedEvent.ret.timing_diff = -StartDiff
             /\ ActedEvent.ret.reason = "None"
             /\ report_count[ActedEvent.track][ActedEvent.index + 1] = 1
             /\ (StartDiff = -50 =>
                    ActedEvent.ret = GameNotePlayResult("MAX90", 50, "None"))
             /\ (StartDiff = 0 =>
                    ActedEvent.ret = GameNotePlayResult("MAX100", 0, "None"))
        ELSE /\ NoteState(ActedNote) = "Playing"
             /\ ActedNote.result_type \in {"MAX100", "MAX90", "MAX1"}
             /\ ~ActedEvent.ret.some
             /\ report_count[ActedEvent.track][ActedEvent.index + 1] = 0
             /\ ActedCursor = ActedEvent.index

\* a short note pressed 50 ms late is reported as (MAX90, 50) and the cursor
\* is on the long note that follows it
C5_Witness ==
    /\ KeyDownActed
    /\ is_short(ActedEvent.pre)
    /\ StartDiff = -50
    /\ ActedEvent.reported
    /\ HasPlayHead(game_tracks_dict[ActedEvent.track])
    /\ is_long(get_play_head_note(game_tracks_dict[ActedEvent.track]))

\* C6: a key-up on a Playing long note whose end is more than 126 ms in the
\* future resolves the note to Played and reports PlayResult(BREAK, reason
\* TooEarlyToFinish), whatever grade the key-down recorded.
C6_EarlyRelease ==
    KeyUpActed /\ is_long(ActedEvent.pre) /\ NoteState(ActedEvent.pre) = "Playing"
        /\ EndDiff > 126 =>
        /\ NoteState(ActedNote) = "Played"
        /\ ActedEvent.reported
        /\ ActedEvent.ret = GameNotePlayResult("BREAK", -EndDiff, "TOO_EARLY_TO_FINISH")
        /\ report_count[ActedEvent.track][ActedEvent.index + 1] = 1

\* a hold started with MAX100 and released 127 ms before its end is a BREAK
C6_Witness ==
    /\ KeyUpActed
    /\ NoteState(ActedEvent.pre) = "Playing"
    /\ ActedEvent.pre.result_type = "MAX100"
    /\ EndDiff = 127
    /\ ActedEvent.ret.result_type = "BREAK"

\* C7: a key-up on a Playing long note that is not too early resolves the
\* note to Played and reports a PlayResult whose grade is the grade recorded
\* at the key-down, with no fail reason; a key-up while the head note is not
\* Playing reports nothing and changes no note state.
C7_Release ==
    KeyUpActed =>
        IF is_long(ActedEvent.pre) /\ NoteState(ActedEvent.pre) = "Playing"
        THEN EndDiff <= 126 =>
                /\ NoteState(ActedNote) = "Played"
                /\ ActedEvent.reported
                /\ ActedEvent.ret =
                       GameNotePlayResult(ActedEvent.pre.result_type, -EndDiff, "None")
        ELSE /\ ~ActedEvent.reported
             /\ ActedNote = ActedEvent.pre

\* C8: a frame tick with auto-play off fails every NotStarted head note of an
\* interactive track that is more than 126 ms past its start: the note gets
\* BREAK with reason TooLateToStart, exactly one PlayResult is reported for
\* it and the judgment cursor moves past it; after the tick no NotStarted
\* head note is more than 126 ms past its start.
C8_LateStartSweep ==
    Ticked /\ ~is_auto_play =>
        /\ \A k \in 1..Len(last.events) :
              LET e == last.events[k] IN
              NoteState(e.pre) = "NotStarted" =>
                  /\ last.cm - get_position_millis(e.pre) > 126
                  /\ e.ret = GameNotePlayResult("BREAK",
                                 last.cm - get_position_millis(e.pre), "TOO_LATE_TO_START")
                  /\ e.reported
                  /\ NoteState(NoteNow(e)) = "Failed"
                  /\ report_count[e.track][e.index + 1] = 1
                  /\ game_tracks_dict[e.track].current_play_index > e.index
                  /\ \A j \in 1..Len(last.events) :
                        last.events[j].track = e.track /\ last.events[j].index = e.index
                            => j = k
        /\ \A t \in InteractiveTracks :
              LET track == game_tracks_dict[t] IN
              HasPlayHead(track) /\ NoteState(get_play_head_note(track)) = "NotStarted" =>
                  elapsed_millis - get_position_millis(get_play_head_note(track)) <= 126

\* a tick 127 ms after the start of an untouched note fails it
C8_Witness ==
    /\ Ticked
    /\ \E k \in 1..Len(last.events) :
          /\ NoteState(last.events[k].pre) = "NotStarted"
          /\ last.cm - get_position_millis(last.events[k].pre) = 127
          /\ last.events[k].ret.reason = "TOO_LATE_TO_START"

LegalMove(a, b) ==
    \/ a = b
    \/ a = "NotStarted" /\ b \in {"Playing", "Played", "Failed"}
    \/ a = "Playing" /\ b \in {"Played", "Failed"}

\* the step is not a load, a start or a stop: it stays within the run
SameRun == last'.op \notin {"OpenPtfile", "StartPlay", "StopPlay"}

\* C10: within one run a note's state only moves NotStarted -> Playing ->
\* Played, NotStarted -> Played, or NotStarted / Playing -> Failed; a Played
\* or Failed note is never altered again by a key event, a tick or a change
\* of game mode; at most one PlayResult is reported per note.
C10_NoteLifecycle ==
    [][SameRun =>
        \A t \in DOMAIN game_tracks_dict :
            \A i \in 1..Len(game_tracks_dict[t].notes) :
                LET a == game_tracks_dict[t].notes[i]
                    b == game_tracks_dict'[t].notes[i]
                IN /\ LegalMove(NoteState(a), NoteState(b))
                   /\ (NoteState(a) \in {"Played", "Failed"} => b = a)
                   /\ report_count'[t][i] <= 1]_vars

(***************************************************************************)
(* Properties of auto-play, the score aggregator and the resets            *)
(***************************************************************************)
\* a step of GameSequencePlayer.on_tick while playing
OnTickStep == frame = "started" /\ frame' = "idle" /\ is_playing /\ raised' = "None"

\* the notes of track t that on_tick finds due: at or after the processing
\* cursor, with position <= the tick reached
DueNotes(t) ==
    {[track |-> t, index |-> i - 1] :
        i \in {j \in 1..Len(game_tracks_dict[t].notes) :
                  /\ j - 1 >= game_tracks_dict[t].current_index
                  /\ game_tracks_dict[t].notes[j].position <= current_tick'}}

\* C11: while auto-play is enabled a frame tick generates no PlayResult: the
\* score and every note's state are unchanged by on_tick, every due note of
\* every track (the GENERAL notes of interactive tracks included) is
\* dispatched by the processing cursor, and the overdue judgment-head notes
\* are skipped without a result, the judgment cursor moving past them.
C11_AutoPlaySilent ==
    [][(OnTickStep /\ is_auto_play) =>
          /\ score' = score
          /\ report_count' = report_count
          /\ TrackNotes(game_tracks_dict') = TrackNotes(game_tracks_dict)
          /\ \A k \in DOMAIN last'.events :
                LET e == last'.events[k]
                IN /\ ~e.reported
                   /\ e.ret = NoResult
                   /\ should_fail_to_play(e.pre, elapsed_millis')
                   /\ game_tracks_dict'[e.track].current_play_index > e.index
          /\ \A t \in DOMAIN game_tracks_dict :
                DueNotes(t) \subseteq SeqToSet(last'.processed)
          /\ \A t \in SeqToSet(game_playable_tracks_list) :
                HasPlayHead(game_tracks_dict'[t])
                    => ~should_fail_to_play(get_play_head_note(game_tracks_dict'[t]),
                                            elapsed_millis')
      ]_vars

\* auto-play is on and the frame tick has skipped an overdue head note and
\* dispatched a GENERAL note of an interactive track
C11_Witness ==
    /\ is_auto_play
    /\ last.op = "OnTick"
    /\ last.events # <<>>
    /\ \E k \in DOMAIN last.processed :
          LET n == last.processed[k]
          IN /\ n.track \in SeqToSet(game_playable_tracks_list)
             /\ is_general(game_tracks_dict[n.track].notes[n.index + 1])

\* a step of GamePatternPlayer.on_play_result, and the result it was given
Fed == last'.op = "on_play_result" /\ Len(last'.events) = Len(last.events) + 1
FedResult == last'.events[Len(last'.events)].ret

\* the number of results after the last BREAK of a sequence of results
RECURSIVE SinceBreak(_)
SinceBreak(events) ==
    IF events = <<>> \/ events[Len(events)].ret.result_type = "BREAK" THEN 0
    ELSE 1 + SinceBreak(SubSeq(events, 1, Len(events) - 1))

\* C12: for every sequence of PlayResults fed to on_play_result the combo
\* becomes 0 after a BREAK and the previous combo plus 1 after any other
\* grade, so the combo is the number of results since the last BREAK.
C12_Combo ==
    [][Fed => /\ score'.combo_count =
                    IF FedResult.result_type = "BREAK" THEN 0
                    ELSE score.combo_count + 1
              /\ score'.combo_count = SinceBreak(last'.events)
      ]_vars

\* a BREAK has reset a combo of two or more, and later results rebuilt it
C12_Witness ==
    /\ last.op = "on_play_result"
    /\ \E k \in 3..(Len(last.events) - 2) :
          /\ last.events[k].ret.result_type = "BREAK"
          /\ \A j \in 1..Len(last.events) :
                j # k => last.events[j].ret.result_type # "BREAK"
    /\ score.combo_count >= 2

\* the results of one grade in a sequence of results
CountOf(events, g) ==
    Cardinality({k \in DOMAIN events : events[k].ret.result_type = g})

SumOfCounts(sc) ==
    sc.result_type_counts["MAX100"] + sc.result_type_counts["MAX90"]
        + sc.result_type_counts["MAX1"] + sc.result_type_counts["BREAK"]

\* C13: each on_play_result adds 1 to the result count and 1 to the counter of
\* the result's grade and to no other counter, and changes nothing outside
\* the aggregator; in every state the count is the sum of the four per-grade
\* counters and the combo is at most the count.
C13_Counters ==
    /\ [](/\ score.play_result_count = SumOfCounts(score)
          /\ score.combo_count <= score.play_result_count
          /\ DOMAIN score.result_type_counts = Grades)
    /\ [][Fed => /\ score'.play_result_count = score.play_result_count + 1
                 /\ score'.result_type_counts =
                       [score.result_type_counts EXCEPT ![FedResult.result_type] = @ + 1]
                 /\ \A g \in Grades :
                       score'.result_type_counts[g] = CountOf(last'.events, g)
                 /\ UNCHANGED <<ptfiles, ptfile, game_tracks_dict,
                                game_playable_tracks_list, Timeline, tempo, beat,
                                tick_interval_millis, current_tick, current_millis,
                                started_millis, elapsed_millis, played_millis,
                                paused_millis, is_playable, is_playing, is_auto_play,
                                game_mode, ignore_play_keys, input_game_mode, Env,
                                raised>>
        ]_vars

\* results of all four grades have been counted, two of them BREAK
C13_Witness ==
    /\ last.op = "on_play_result"
    /\ \A g \in Grades : score.result_type_counts[g] >= 1
    /\ score.result_type_counts["BREAK"] = 2
    /\ score.play_result_count = 5

\* C14: the score state (count, combo, average, per-grade counters) is all
\* zero immediately after a start_play that starts playback, after a seek
\* (offset_current_tick) and after open_ptfile.
C14_ScoreZeroAfterReset ==
    [][(/\ control_ops' = control_ops + 1
        /\ \/ last'.op = "StartPlay" /\ ~is_playing
           \/ last'.op = "OffsetCurrentTick"
           \/ last'.op = "OpenPtfile")
          => score' = ZeroScore
      ]_vars

\* C15: after stop_play everything is at the load-time baseline: currentTick
\* is 0, the clock fields are unset, both cursors of every track are at their
\* initial position, every note of every track is NotStarted, the score is
\* zero, and the live tempo and beat are the master BPM and 4.
C15_StopIsBaseline ==
    (last.op = "StopPlay" /\ ptfile # "None") =>
        /\ current_tick = 0
        /\ current_millis = -1 /\ started_millis = -1 /\ elapsed_millis = -1
        /\ played_millis = -1 /\ paused_millis = -1
        /\ ~is_playing
        /\ \A t \in DOMAIN game_tracks_dict :
              LET track == game_tracks_dict[t]
                  loaded == GameTrack(Chart(ptfile).tracks[t])
              IN /\ track.current_index = loaded.current_index
                 /\ track.current_play_index = loaded.current_play_index
                 /\ track.notes = loaded.notes
        /\ score = ZeroScore
        /\ tempo = Chart(ptfile).master_bpm
        /\ beat = DefaultBeat

\* C16: after a pause at wall-clock time p and a resume with no seek between,
\* the elapsed accounting is continuous: the first tick after the resume has
\* elapsedMillis = p - startedMillis as of the pause, and every later tick of
\* the run advances elapsedMillis by the time between the two frames' clock
\* samples, never by the paused duration; wherever in the frame the resume
\* event is handled.
C16_PauseContinuity ==
    [][(OnTickStep /\ started_millis >= 0) =>
          IF paused_millis > 0
          THEN elapsed_millis' = paused_millis - started_millis
          ELSE elapsed_millis' - elapsed_millis \in FrameDeltas
      ]_vars

(***************************************************************************)
(* Properties of the timeline and the channels                             *)
(***************************************************************************)
\* a chart is loaded and its load completed
LoadCompleted == ptfile # "None" /\ raised = "None" /\ Len(played_millis_per_tick) = total_ticks

\* C17: after a seek to tick T, resume_play and the first processed frame,
\* the live tempo, tick interval and playedMillis are the entries of the
\* timeline tables for T, for every tick T of every chart.
C17_SeekMatchesTimeline ==
    [][(OnTickStep /\ started_millis < 0) =>
          /\ tempo' = tempos_per_tick[current_tick + 1]
          /\ tick_interval_millis' = tick_interval_millis_per_tick[current_tick + 1]
          /\ played_millis' = played_millis_per_tick[current_tick + 1]
      ]_vars

\* C18: for every chart and every tick t, tickIntervalMillisPerTick[t] is
\* 240000 / ticksPerMeasure / tempoPerTick[t], the ticks before the first BPM
\* note included.
C18_IntervalFromTempo ==
    LoadCompleted =>
        \A i \in 1..total_ticks :
            /\ tempos_per_tick[i] # 0
            /\ tick_interval_millis_per_tick[i]
                  = (MillisPerMeasureAtOneBpm \div ticks_per_measure) \div tempos_per_tick[i]

OverlappingPair(c, t, i) ==
    LET notes == Chart(c).tracks[t]
        played == BuildTimeline(c).played
    IN /\ i + 1 <= Len(notes)
       /\ notes[i].command_type = GENERAL /\ notes[i + 1].command_type = GENERAL
       /\ notes[i + 1].position < Chart(c).total_ticks
       /\ played[notes[i + 1].position + 1]
             < played[notes[i].position + 1] + notes[i].sound_duration_millis

\* C20: for every track and every pair of consecutive GENERAL notes on it
\* (two at the same tick included) of which the later starts before the
\* earlier's start plus its sound's duration, open_ptfile completes with the
\* track flagged has-overlap and given 2 channels.
C20_OverlapFlagged ==
    last.op = "OpenPtfile" =>
        \A t \in EffectiveTracks(ptfile) :
            \A i \in DOMAIN Chart(ptfile).tracks[t] :
                OverlappingPair(ptfile, t, i)
                    => /\ raised = "None"
                       /\ track_has_any_overlap[t]
                       /\ number_of_channels_per_track[t] = 2

\* C21: after a load that completes, every effective track has 0 channels if it
\* holds no GENERAL note, otherwise 2 if it is flagged has-overlap or is a
\* foreground-melody track (track index 2..11), otherwise 1, and no other value
C21_ChannelCount ==
    LoadCompleted =>
        /\ DOMAIN number_of_channels_per_track = EffectiveTracks(ptfile)
        /\ \A t \in EffectiveTracks(ptfile) :
              LET notes == Chart(ptfile).tracks[t]
                  n == number_of_channels_per_track[t]
              IN /\ n \in {0, 1, 2}
                 /\ n = 0 <=> ~(\E i \in 1..Len(notes) : notes[i].command_type = GENERAL)
                 /\ n = 2 <=> /\ \E i \in 1..Len(notes) : notes[i].command_type = GENERAL
                              /\ (track_has_any_overlap[t] \/ t \in 2..11)

\* a chart loaded with all three counts: the BPM track 0 with none, the
\* unflagged foreground-melody track 3 with 2 and the unflagged track 12 with 1
C21_Witness ==
    /\ LoadCompleted
    /\ last.op = "OpenPtfile"
    /\ Chart(ptfile).tracks[0] # <<>>
    /\ number_of_channels_per_track[0] = 0
    /\ ~track_has_any_overlap[3]
    /\ number_of_channels_per_track[3] = 2
    /\ number_of_channels_per_track[12] = 1

BpmNotesUpTo(t) ==
    SelectSeq(Chart(ptfile).tracks[0], LAMBDA n : n.command_type = BPM /\ n.position <= t)

\* C28: the sweep of a load reaches every tick and drains every note, also
\* notes that share a tick; playedMillisPerTick starts at 0 and grows at each
\* tick by the interval of the tick before; the tempo and the interval of a
\* tick are those of the last BPM note at or before it
C28_SweepOrder ==
    ptfile # "None" =>
        /\ raised = "None"
        /\ Len(played_millis_per_tick) = total_ticks
        /\ played_millis_per_tick[1] = 0
        /\ \A t \in 1..(total_ticks - 1) :
              played_millis_per_tick[t + 1]
                  = played_millis_per_tick[t] + tick_interval_millis_per_tick[t]
        /\ \A t \in 0..(total_ticks - 1) :
              LET bpms == BpmNotesUpTo(t)
              IN IF bpms = <<>> THEN tempos_per_tick[t + 1] = 0
                 ELSE /\ tempos_per_tick[t + 1] = bpms[Len(bpms)].tempo
                      /\ tick_interval_millis_per_tick[t + 1]
                            = (240000 \div ticks_per_measure) \div bpms[Len(bpms)].tempo

(***************************************************************************)
(* Properties of the frame tick                                            *)
(***************************************************************************)
\* C29: an on_tick while playing with a positive tick interval sets elapsed to
\* currentMillis - startedMillis and computes floor((elapsed - playedMillis) /
\* tickIntervalMillis); if that is positive, currentTick grows by it and
\* playedMillis by that many intervals, otherwise both stay; afterwards
\* 0 <= elapsed - playedMillis < the interval; currentTick never decreases
\* while playback goes on
C29_TickAdvance ==
    /\ [][(OnTickStep /\ tick_interval_millis > 0) =>
             LET played == IF played_millis < 0 THEN 0 ELSE played_millis
                 elapsed == current_millis - started_millis'
                 incremental_ticks == (elapsed - played) \div tick_interval_millis
             IN /\ elapsed_millis' = elapsed
                /\ IF incremental_ticks > 0
                   THEN /\ current_tick' = current_tick + incremental_ticks
                        /\ played_millis' = played + tick_interval_millis * incremental_ticks
                   ELSE /\ current_tick' = current_tick
                        /\ played_millis' = played
                /\ 0 <= elapsed_millis' - played_millis'
                /\ elapsed_millis' - played_millis' < tick_interval_millis
         ]_vars
    /\ [][(is_playing /\ is_playing') => current_tick' >= current_tick]_vars

\* a step inside one playback run: playback goes on, and the step is none of
\* the operations that begin a run or load a chart
InRun ==
    /\ is_playing /\ is_playing'
    /\ last'.op \notin {"StartPlay", "ResumePlay", "OpenPtfile", "SetGameMode",
                        "SetCurrentTick", "OffsetCurrentTick", "StopPlay"}

\* the entries of notes_to_process that belong to track t, in their order
ProcessedOf(processed, t) == SelectSeq(processed, LAMBDA n : n.track = t)

\* C30: after every on_tick while playing, on every track the processing
\* cursor is past every note with position <= current_tick and its head note,
\* if any, lies after current_tick; the notes it has passed in the tick are
\* those from the old cursor to the new one, each dispatched at most once and
\* in track order; within one playback run the cursor never moves back, and
\* only on_tick moves it.
C30_ProcessingCursor ==
    /\ [][OnTickStep =>
             \A t \in DOMAIN game_tracks_dict :
                LET old == game_tracks_dict[t].current_index
                    new == game_tracks_dict'[t].current_index
                    notes == game_tracks_dict[t].notes
                    mine == ProcessedOf(last'.processed, t)
                IN /\ old <= new /\ new <= Len(notes)
                   /\ \A j \in DOMAIN notes :
                         notes[j].position <= current_tick' => j - 1 < new
                   /\ \A j \in DOMAIN notes :
                         (old <= j - 1 /\ j - 1 < new) => notes[j].position <= current_tick'
                   /\ HasHead(game_tracks_dict'[t])
                         => get_head_note(game_tracks_dict'[t]).position > current_tick'
                   /\ \A k \in DOMAIN mine :
                         /\ old <= mine[k].index /\ mine[k].index < new
                         /\ k > 1 => mine[k - 1].index < mine[k].index
                   /\ \A j \in DOMAIN notes :
                         (old <= j - 1 /\ j - 1 < new /\ ~is_general(notes[j]))
                            => \E k \in DOMAIN mine : mine[k].index = j - 1
         ]_vars
    /\ [][InRun =>
             \A t \in DOMAIN game_tracks_dict :
                /\ game_tracks_dict'[t].current_index >= game_tracks_dict[t].current_index
                /\ last'.op # "OnTick"
                      => game_tracks_dict'[t].current_index
                            = game_tracks_dict[t].current_index
         ]_vars

\* a frame tick of a run has taken two notes of one track at once, and a
\* later cursor of another track has moved as well
C30_Witness ==
    /\ last.op = "OnTick"
    /\ is_playing
    /\ \E t \in DOMAIN game_tracks_dict :
          /\ Len(ProcessedOf(last.processed, t)) >= 2
          /\ game_tracks_dict[t].current_index = Len(game_tracks_dict[t].notes)
    /\ \E t \in DOMAIN game_tracks_dict :
          /\ HasHead(game_tracks_dict[t])
          /\ game_tracks_dict[t].current_index > 0

\* a frame tick (on_tick_start or on_tick) taken while playback is paused or
\* stopped
IdleFrameStep == ~is_playing /\ last'.op \in {"OnTickStart", "OnTick"}

\* C32: while is_playing is false a frame tick (on_tick_start, on_tick)
\* leaves current_millis, played_millis, elapsed_millis, current_tick, both
\* cursors and the state of every note of every track and the score
\* unchanged, and dispatches no note.
C32_IdleFrames ==
    [][IdleFrameStep =>
          /\ UNCHANGED <<current_millis, played_millis, elapsed_millis, started_millis,
                         paused_millis, current_tick, game_tracks_dict, score,
                         report_count, channel_per_track, tempo, beat,
                         tick_interval_millis, is_playing>>
          /\ last'.processed = <<>>
          /\ last'.sounds = <<>>
          /\ last'.events = <<>>
      ]_vars

\* frames have gone by while playback was paused (or stopped) with a note
\* already due by the wall clock
C32_Witness ==
    /\ ~is_playing
    /\ last.op = "OnTick"
    /\ current_millis >= 0
    /\ now >= current_millis + 2 * (3 * unit_judge_millis + 1)
    /\ \E t \in DOMAIN game_tracks_dict : HasHead(game_tracks_dict[t])

(***************************************************************************)
(* Properties of Game.main_async                                           *)
(***************************************************************************)
\* entry e is in the frame's log before position i
LoggedBefore(e, i) == \E j \in 1..(i - 1) : loop.log[j] = e

FrameParts ==
    {"screen_drawed ends", "sequence_player_ticked ends", "events_handled ends",
     "on_tick_end ends"}

\* C35: in every frame of main_async the buffer flip starts only after the
\* frame's drawing task has ended; the next clock sample is taken only after
\* the frame's drawing, sequence tick, event handling and flip have all
\* ended; and the sequence tick and the event handling never run inside each
\* other: what starts ends before the other starts, and the player is
\* written by the body of one of them at a time.
C35_FrameOrder ==
    /\ [](\A i \in DOMAIN loop.log :
             /\ loop.log[i] = "on_tick_end starts" => LoggedBefore("screen_drawed ends", i)
             /\ loop.log[i] = "events_handled starts" =>
                   (LoggedBefore("sequence_player_ticked starts", i)
                       => LoggedBefore("sequence_player_ticked ends", i))
             /\ loop.log[i] = "sequence_player_ticked starts" =>
                   (LoggedBefore("events_handled starts", i)
                       => LoggedBefore("events_handled ends", i)))
    /\ [][(frame = "idle" /\ frame' = "started") =>
             /\ loop.running = "main" /\ loop.ready = <<>>
             /\ loop.executor # "running"
             /\ loop.log # <<>> => FrameParts \subseteq SeqToSet(loop.log)
         ]_vars
    /\ [][(last'.op = "OnTick" /\ last' # last) =>
             loop.running = "sequence_player_ticked"]_vars
    /\ [][(last'.op \in {"PausePlay", "ResumePlay", "KeyDown", "KeyUp"} /\ last' # last) =>
             loop.running = "events_handled"]_vars

\* a second frame is being sampled after a first in which a pause was handled
\* and every part has ended
C35_Witness ==
    /\ loop.pc = "sample" /\ loop.running = "main"
    /\ frame = "started"
    /\ FrameParts \subseteq SeqToSet(loop.log)
    /\ ~is_playing
    /\ paused_millis > 0

(***************************************************************************)
(* Properties of note dispatch and of the channels                         *)
(***************************************************************************)
\* the note of an entry of notes_to_process or of the sounds
NoteOf(tracks, n) == tracks[n.track].notes[n.index + 1]

\* the entries of a dispatch that are notes of the given command type
OfType(tracks, processed, command_type) ==
    SelectSeq(processed, LAMBDA n : NoteOf(tracks, n).command_type = command_type)

\* the notes the processing cursors consume in this on_tick
Consumed ==
    UNION {{[track |-> t, index |-> j] :
               j \in game_tracks_dict[t].current_index ..
                        (game_tracks_dict'[t].current_index - 1)} :
           t \in DOMAIN game_tracks_dict}

Interactive(t) == t \in get_track_indices(game_mode)

\* C31: of the notes the processing cursors consume in an on_tick, every
\* VOLUME, BPM and BEAT note of every track is dispatched (the track volume,
\* the tempo and the beat are those of the last such note dispatched), and a
\* GENERAL note sounds exactly if its track is not interactive in the current
\* game mode or auto-play is on; a GENERAL note of an interactive track
\* without auto-play sounds only in a key-down on its own track.
C31_Dispatch ==
    /\ [][OnTickStep =>
             LET processed == last'.processed
                 bpms    == OfType(game_tracks_dict, processed, BPM)
                 beats   == OfType(game_tracks_dict, processed, BEAT)
                 sounded == {[track |-> x.track, index |-> x.index] :
                                x \in SeqToSet(last'.sounds)}
             IN /\ \A n \in Consumed :
                      LET note == NoteOf(game_tracks_dict, n)
                      IN IF is_general(note)
                         THEN n \in sounded <=> (~Interactive(n.track) \/ is_auto_play)
                         ELSE n \in SeqToSet(processed)
                /\ sounded \subseteq Consumed
                /\ tempo' = IF bpms = <<>> THEN tempo
                            ELSE NoteOf(game_tracks_dict, bpms[Len(bpms)]).tempo
                /\ bpms # <<>> =>
                      tick_interval_millis' = TickInterval(ticks_per_measure, tempo')
                /\ beat' = IF beats = <<>> THEN beat
                           ELSE NoteOf(game_tracks_dict, beats[Len(beats)]).beat
                /\ \A t \in DOMAIN game_tracks_dict :
                      LET volumes == OfType(game_tracks_dict,
                                            ProcessedOf(processed, t), VOLUME)
                      IN channel_per_track'[t].volume =
                            IF volumes = <<>> THEN channel_per_track[t].volume
                            ELSE NoteOf(game_tracks_dict, volumes[Len(volumes)]).volume
         ]_vars
    /\ [][\A k \in DOMAIN last'.sounds :
             LET x == last'.sounds[k]
             IN (last'.sounds # last.sounds /\ Interactive(x.track) /\ ~is_auto_play)
                   => /\ last'.op = "KeyDown"
                      /\ last'.events # <<>>
                      /\ last'.events[1].track = x.track
         ]_vars

\* an on_tick without auto-play has dispatched a VOLUME and a BEAT note and
\* sounded a GENERAL note of a track that is not interactive, while it passed
\* a GENERAL note of an interactive track in silence
C31_Witness ==
    /\ last.op = "OnTick"
    /\ ~is_auto_play
    /\ beat = 3
    /\ channel_per_track[3].volume = 0
    /\ \E k \in DOMAIN last.sounds : ~Interactive(last.sounds[k].track)
    /\ game_tracks_dict[3].current_index = 2
    /\ \A k \in DOMAIN last.sounds : last.sounds[k].track # 3

\* the channels handed to track t
ChannelRange(t) == SeqToSet(channel_per_track[t].channels)

\* C33: after a load that completes, the channel ranges of the tracks
\* partition the pool: every track has a contiguous run of exactly its
\* channel count, the runs follow each other in track-iteration order, the
\* ranges of two tracks are disjoint and together they are 0 .. total - 1.
C33_ChannelPartition ==
    LoadCompleted =>
        LET order == game_tracks_list
            total == TotalNumberOfChannels(number_of_channels_per_track, order, 1)
        IN /\ DOMAIN channel_per_track = DOMAIN number_of_channels_per_track
           /\ DOMAIN channel_per_track = DOMAIN game_tracks_dict
           /\ \A t \in DOMAIN channel_per_track :
                 LET channels == channel_per_track[t].channels
                 IN /\ Len(channels) = number_of_channels_per_track[t]
                    /\ \A i \in 1..(Len(channels) - 1) : channels[i + 1] = channels[i] + 1
           /\ \A t, u \in DOMAIN channel_per_track :
                 t # u => ChannelRange(t) \cap ChannelRange(u) = {}
           /\ UNION {ChannelRange(t) : t \in DOMAIN channel_per_track} = 0..(total - 1)
           /\ \A k, l \in DOMAIN order :
                 k < l => \A a \in ChannelRange(order[k]), b \in ChannelRange(order[l]) : a < b

\* a chart is loaded whose track 0 gets no channel, track 3 the channels 0 and
\* 1 and track 12, flagged for overlap, the channels 2 and 3
C33_Witness ==
    /\ LoadCompleted
    /\ DOMAIN channel_per_track = {0, 3, 12}
    /\ channel_per_track[0].channels = <<>>
    /\ channel_per_track[3].channels = <<0, 1>>
    /\ channel_per_track[12].channels = <<2, 3>>

\* the sounds of a step that were played on track t, in their order
SoundsOf(sounds, t) == SelectSeq(sounds, LAMBDA x : x.track = t)

\* C34: a track's picker is round-robin over its own range: its index is 0
\* after a load and always within 0 .. n - 1; each trigger uses the channel
\* at the index and moves the index on by one modulo n, so that the k-th
\* trigger uses range[k mod n]; the channel is never one of another track;
\* on a track of 2 channels a trigger never uses the channel of the trigger
\* before it; and the picker is never invoked on a track without channels.
C34_RoundRobin ==
    /\ [](\A t \in DOMAIN channel_per_track :
             LET n == Len(channel_per_track[t].channels)
                 i == channel_per_track[t].channel_index
             IN /\ 0 <= i
                /\ IF n = 0 THEN i = 0 ELSE i < n
                /\ (last.op = "OpenPtfile" /\ LoadCompleted) => i = 0)
    /\ [](last.op \in {"OnTick", "KeyDown"} => raised # "IndexError")
    /\ [][\A t \in DOMAIN channel_per_track :
             LET mine == SoundsOf(last'.sounds, t)
                 channels == channel_per_track[t].channels
                 n == Len(channels)
                 i == channel_per_track[t].channel_index
             IN (last'.op \in {"OnTick", "KeyDown"} /\ mine # <<>>) =>
                   /\ n >= 1
                   /\ \A k \in DOMAIN mine :
                         /\ mine[k].channel = channels[((i + k - 1) % n) + 1]
                         /\ \A u \in DOMAIN channel_per_track :
                               u # t => mine[k].channel \notin ChannelRange(u)
                         /\ (n = 2 /\ k > 1) => mine[k].channel # mine[k - 1].channel
                   /\ n = 2 => mine[1].channel # channels[((i + 1) % n) + 1]
                   /\ channel_per_track'[t].channels = channels
                   /\ channel_per_track'[t].channel_index = (i + Len(mine)) % n
         ]_vars

\* one on_tick has triggered three sounds on track 12, which has the channels
\* 2 and 3: they went to 2, 3 and 2 again, and the index is at 1
C34_Witness ==
    /\ last.op = "OnTick"
    /\ DOMAIN channel_per_track = {0, 3, 12}
    /\ channel_per_track[12].channels = <<2, 3>>
    /\ channel_per_track[12].channel_index = 1
    /\ Len(SoundsOf(last.sounds, 12)) = 3
    /\ SoundsOf(last.sounds, 12)[1].channel = 2
    /\ SoundsOf(last.sounds, 12)[2].channel = 3
    /\ SoundsOf(last.sounds, 12)[3].channel = 2

(***************************************************************************)
(* Properties of the Chart Decoder and the Decryption Gateway              *)
(***************************************************************************)
ParseEnded == parse.pc = "idle" /\ parse.calls > 0

\* C22: parse ends with a complete PTFile or with an exception and no PTFile,
\* never with both or with a PTFile while it runs; when the bytes it unpacks
\* have a wrong header magic, a wrong track magic or a command type outside
\* 1..4 it ends with an exception and returns nothing
C22_ParseAllOrNothing ==
    /\ ~ParseEnded => parse.returned = <<>> /\ parse.raised = "None"
    /\ ParseEnded =>
          /\ (parse.returned = <<>>) # (parse.raised = "None")
          /\ parse.returned # <<>> =>
                LET returned == parse.returned[1]
                IN /\ Len(returned.sounds) = returned.header.number_of_sounds
                   /\ Len(returned.tracks) = returned.header.number_of_tracks
          /\ (parse.unpacked # <<>> /\ parse.unpacked[1] \in
                  BadMagicBuffers \cup BadTrackBuffers \cup BadCommandBuffers)
                => parse.raised # "None" /\ parse.returned = <<>>

GatewaySteps ==
    {"decrypt_ptfile", "/auth", "/command/available", "/task/create", "/task",
     "/task/download"}

\* C23: a call of parse on a buffer of at least 0x1a bytes goes to the
\* decryptor (and from there to the gateway) if and only if the little-endian
\* u16 at offset 0x18 of the buffer is not 1; the structural part runs last,
\* after the exchange, on the buffer itself if the value is 1 and otherwise on
\* the bytes the decryptor returned for the whole buffer
C23_DecryptBeforeUnpack ==
    (parse.calls > 0 /\ Len(parse.file) >= 26) =>
        LET encrypted == parse.file[25] + 256 * parse.file[26] # 1
            steps == parse.steps
            downloaded == \E i \in 1..Len(steps) : steps[i] = "/task/download"
        IN /\ (\E i \in 1..Len(steps) : steps[i] \in GatewaySteps) <=> encrypted
           /\ \A i \in 1..Len(steps) : steps[i] = "unpack" => i = Len(steps) /\ ParseEnded
           /\ parse.unpacked # <<>> => steps[Len(steps)] = "unpack"
           /\ (parse.unpacked # <<>> /\ ~encrypted) => parse.unpacked[1] = parse.file
           /\ (parse.unpacked # <<>> /\ encrypted) =>
                 /\ Md5Hex7(parse.file) \in DOMAIN decrypted_cache
                 /\ parse.unpacked[1] = decrypted_cache[Md5Hex7(parse.file)]
                 /\ downloaded => parse.unpacked[1] = Decrypted(parse.file)

\* an encrypted chart went through the whole exchange and was parsed
C23_Witness ==
    /\ ParseEnded
    /\ parse.file = Decrypted(ValidBuffer)
    /\ parse.steps = <<"is_encrypted", "decrypt_ptfile", "/auth", "/command/available",
                       "/task/create", "/task", "/task", "/task/download", "unpack">>
    /\ parse.returned # <<>>

GatewayFailed == ParseEnded /\ parse.raised = "RequestException"

\* C24: when a request to the gateway raises, parse ends with that exception:
\* nothing is unpacked or returned and the cache has no file for the input;
\* the next parse of the same bytes goes to the gateway again
C24_GatewayFailureIsFatal ==
    /\ [](GatewayFailed =>
             /\ parse.returned = <<>>
             /\ parse.unpacked = <<>>
             /\ Md5Hex7(parse.file) \notin DOMAIN decrypted_cache)
    /\ [][(GatewayFailed /\ parse'.calls = parse.calls + 1 /\ parse'.file = parse.file)
             => parse'.pc \in {"auth", "commands", "create"}]_vars

\* the download of the second call failed; the first call, which got the token
\* and the commands, had failed too
C24_Witness ==
    /\ GatewayFailed
    /\ parse.calls = 2
    /\ parse.steps = <<"is_encrypted", "decrypt_ptfile", "/task/create", "/task",
                       "/task/download">>
    /\ decrypted_cache = [n \in {} |-> <<>>]

\* C25: when parse ends with an exception, the decryptor's token and command
\* table, the token file and the cache are as they were when the call began
C25_FailureLeavesNoTrace ==
    (ParseEnded /\ parse.raised # "None") =>
        /\ decryptor = parse.before[1].decryptor
        /\ token_file = parse.before[1].token_file
        /\ decrypted_cache = parse.before[1].decrypted_cache

Requests == GatewaySteps \ {"decrypt_ptfile"}

\* C26: a decrypt of a buffer whose file is in the cache issues no request,
\* and every decrypt of an encrypted buffer gives the plaintext of that buffer
C26_CacheIsFaithful ==
    (parse.calls > 0 /\ Len(parse.file) >= 26 /\ is_encrypted(parse.file)) =>
        /\ Md5Hex7(parse.file) \in DOMAIN parse.before[1].decrypted_cache =>
              \A i \in 1..Len(parse.steps) : parse.steps[i] \notin Requests
        /\ parse.unpacked # <<>> => parse.unpacked[1] = Decrypted(parse.file)

\* the requests sent so far in the call, in their order
RequestsSent == SelectSeq(parse.steps, LAMBDA step : step \in Requests)

\* the place of a request in an exchange
RequestRank(request) ==
    CASE request = "/auth" -> 1
      [] request = "/command/available" -> 2
      [] request = "/task/create" -> 3
      [] request = "/task" -> 4
      [] request = "/task/download" -> 5

\* C36: the requests of an exchange follow the order /auth (left out when a
\* token is already held or in the token file), /command/available (asked
\* once per process), /task/create, /task any number of times, /task/download;
\* every request but /auth carries a token that was set before it; a poll that
\* reads another status than "completed" is followed by a poll, and the
\* download is requested only after a poll has read "completed".
C36_RequestOrder ==
    /\ [](LET sent == RequestsSent
          IN /\ \A i \in 1..(Len(sent) - 1) :
                   /\ RequestRank(sent[i]) <= RequestRank(sent[i + 1])
                   /\ RequestRank(sent[i]) = RequestRank(sent[i + 1]) => sent[i] = "/task"
             /\ \A i \in DOMAIN sent :
                   /\ sent[i] = "/task" => \E j \in 1..(i - 1) : sent[j] = "/task/create"
                   /\ sent[i] = "/task/download" => i > 1 /\ sent[i - 1] = "/task"
             /\ \A i \in DOMAIN parse.tokens : parse.tokens[i] = "token"
             /\ Len(parse.tokens) = Cardinality({i \in DOMAIN sent : sent[i] # "/auth"})
             /\ (\E i \in DOMAIN sent : sent[i] = "/auth") =>
                   /\ parse.before[1].decryptor.token = "None"
                   /\ parse.before[1].token_file = "None"
             /\ \A i \in DOMAIN parse.statuses :
                   parse.statuses[i] = "completed" => i = Len(parse.statuses)
             /\ (\E i \in DOMAIN sent : sent[i] = "/task/download") =>
                   /\ parse.statuses # <<>>
                   /\ parse.statuses[Len(parse.statuses)] = "completed")
    /\ [][(parse.pc = "poll" /\ parse' # parse /\ parse'.raised = "None") =>
             /\ Len(parse'.statuses) = Len(parse.statuses) + 1
             /\ IF parse'.statuses[Len(parse'.statuses)] = "completed"
                THEN parse'.pc = "download"
                ELSE parse'.pc = "poll"
         ]_vars

\* a first exchange of the process has sent all five kinds of request, with
\* two polls that read "processing" and "failed" before the one that read
\* "completed"
C36_Witness ==
    /\ ParseEnded
    /\ RequestsSent = <<"/auth", "/command/available", "/task/create", "/task", "/task",
                        "/task", "/task/download">>
    /\ parse.statuses = <<"processing", "failed", "completed">>

\* a step of a call that is in the polling loop
PollStep == parse.pc = "poll" /\ parse' # parse

\* C37: the polling loop is left only when a poll reads "completed" (on to the
\* download) or when the request raises (out of parse); a poll that reads any
\* other status, however many have gone before, is followed by the next poll,
\* so that a call whose task never reads "completed" has returned nothing and
\* raised nothing: neither decrypt nor parse has ended.
C37_PollingLoop ==
    /\ [][PollStep =>
             LET status == parse'.statuses[Len(parse'.statuses)]
                 answered == Len(parse'.statuses) = Len(parse.statuses) + 1
             IN /\ parse'.polls = parse.polls + 1 \/ parse'.raised # "None"
                /\ parse'.pc = "download" <=> (answered /\ status = "completed")
                /\ parse'.pc = "idle" <=>
                      (~answered /\ parse'.raised = "RequestException")
                /\ parse'.pc = "poll" <=> (answered /\ status # "completed")
         ]_vars
    /\ [](parse.pc = "poll" =>
             /\ \A i \in DOMAIN parse.statuses : parse.statuses[i] # "completed"
             /\ Len(parse.statuses) = parse.polls
             /\ parse.returned = <<>> /\ parse.raised = "None" /\ parse.unpacked = <<>>
             /\ ~ParseEnded)
    /\ []((parse.calls > 0 /\ parse.statuses # <<>> /\ ParseEnded) =>
             \/ parse.statuses[Len(parse.statuses)] = "completed"
             \/ parse.raised = "RequestException")

\* as many polls as the runs allow have read "processing" or "failed", and the
\* call is still in the loop
C37_Witness ==
    /\ parse.pc = "poll"
    /\ parse.polls = MaxPolls
    /\ \E i \in DOMAIN parse.statuses : parse.statuses[i] = "failed"
    /\ parse.statuses[Len(parse.statuses)] = "processing"

\* C38: in playback started with start_play and not interrupted, after every
\* on_tick that leaves current_tick below total_ticks the live clock
\* played_millis equals the timeline's entry of that tick.
C38_LiveClock ==
    (/\ last.op = "OnTick"
     /\ raised = "None"
     /\ is_playing
     /\ current_tick < total_ticks)
        => played_millis = played_millis_per_tick[current_tick + 1]

\* C39: playback that is running goes on to the end of the chart unless it is
\* paused: current_tick comes to exceed total_ticks and is_playing to be false.
C39_PlaybackFinishes ==
    (is_playing /\ raised = "None")
        ~> \/ last.op = "PausePlay"
           \/ ~is_playing /\ current_tick > total_ticks

\* C40: a key-down or key-up handled while the sequence player is not playing
\* (paused, stopped, not yet started) reports no PlayResult, leaves every
\* note as it was, does not move a judgment cursor and leaves the score as it
\* was.
C40_KeysOnlyWhilePlaying ==
    [][(~is_playing /\ last'.op \in {"KeyDown", "KeyUp"}) =>
          /\ \A i \in DOMAIN last'.events :
                ~last'.events[i].ret.some \/ last'.events[i].ret.result_type = "None"
          /\ \A t \in DOMAIN game_tracks_dict :
                /\ game_tracks_dict'[t].notes = game_tracks_dict[t].notes
                /\ game_tracks_dict'[t].current_play_index
                      = game_tracks_dict[t].current_play_index
          /\ score' = score
          /\ report_count' = report_count]_vars

====
